---------------------------- MODULE Spec2Model ----------------------------
(***************************************************************************)
(* Tree layout, selection / path-highlight state and keyboard navigation   *)
(* of the conversation-tree canvas.                                        *)
(*                                                                         *)
(*   CanvasProvider (contexts/CanvasContext)  : treeId, nodes, leafNodes,  *)
(*       selectedNodeId, highlightedPath, pathRequestIdRef and the async   *)
(*       operations refreshNodes / highlightPathToNode                     *)
(*   useTreeLayout                            : the derived layout         *)
(*   useArrowKeyNavigation                    : arrow-key navigation       *)
(*   TreeCanvasInner                          : click / Escape handlers    *)
(*                                                                         *)
(* One action is one event-loop turn (a handler run to completion, the     *)
(* re-render and the passive effects that follow it).                      *)
(***************************************************************************)
EXTENDS Integers, Sequences, FiniteSets, TLC

VARIABLES
    isTauri,            \* module constant of CanvasContext: Tauri or browser-only
    treeId,             \* useState treeId
    nodes,              \* useState nodes: sequence of [id, parent_id]
    leafNodes,          \* useState leafNodes
    isLoading,          \* useState isLoading
    error,              \* useState error
    selectedNodeId,     \* useState selectedNodeId
    highlightedPath,    \* useState highlightedPath: NoPath (null) or Path(ids)
    pathRequestIdRef,   \* useRef pathRequestIdRef.current
    pathRequests,       \* highlightPathToNode calls suspended at their await: requestId,
                        \* nodeId, and as history whether a clearHighlightedPath or a
                        \* tree unload has run since the call
    nodeLoads,          \* trees with a refreshNodes call suspended at its await
    lastVisitedChild,   \* lastVisitedChildRef.current: a function parent id -> child id
    layout,             \* the memoised result of useTreeLayout in TreeCanvasInner
    lastOp,             \* history: the handler that ran in the last step
    walk,               \* one call of getMockPath: its position, its argument and its
                        \* locals current and path
    state,              \* useStreamingResponse: useState state [isStreaming, content, error]
    streamingRef,       \* useRef streamingRef.current
    timeoutRef,         \* useRef timeoutRef.current: a timer id or NoTimer
    timers,             \* window timers set and neither fired nor cleared: id, the
                        \* startStreaming call whose streamChunk it runs, and the
                        \* index of that closure
    timerSeq,           \* the last id window.setTimeout returned
    streamCalls         \* the number of startStreaming calls so far

vars == <<isTauri, treeId, nodes, leafNodes, isLoading, error, selectedNodeId,
          highlightedPath, pathRequestIdRef, pathRequests, nodeLoads,
          lastVisitedChild, layout, lastOp, walk,
          state, streamingRef, timeoutRef, timers, timerSeq, streamCalls>>

\* the state of useStreamingResponse
streamVars == <<state, streamingRef, timeoutRef, timers, timerSeq, streamCalls>>

NULL == "null"

\* timeoutRef.current when it holds no timer id: null, which the test
\* "if (timeoutRef.current)" treats as it would treat 0; timer ids are positive
NoTimer == 0

\* useStreamingResponse at its first render
StreamingMounted ==
    /\ state = [isStreaming |-> FALSE, content |-> << >>, error |-> NULL]
    /\ streamingRef = FALSE
    /\ timeoutRef = NoTimer
    /\ timers = {}
    /\ timerSeq = 0
    /\ streamCalls = 0

\* string[] | null
NoPath == [isNull |-> TRUE, ids |-> << >>]
Path(ids) == [isNull |-> FALSE, ids |-> ids]

(***************************************************************************)
(* Bounds of the model.                                                    *)
(***************************************************************************)
\* highlightPathToNode / clearHighlightedPath calls in one behaviour
MaxRequests == 2
\* longest highlightedPath handed to useTreeLayout as a free input
MaxPathLen == 2

(***************************************************************************)
(* Node collections.                                                       *)
(***************************************************************************)
Node(i, p) == [id |-> i, parent_id |-> p]

MOCK_NODES ==
    << Node("1", NULL), Node("2", "1"), Node("3", "1"), Node("4", "2"), Node("5", "3") >>

\* undefined, as a node record
NoNode == Node(NULL, NULL)

\* no call of getMockPath under way
NoWalk == [pc |-> "idle", nodeId |-> NULL, current |-> NoNode, path |-> << >>]

\* Array.prototype.find on a node collection by id: the first match, or NoNode (undefined)
FindNode(coll, i) ==
    IF \E k \in 1..Len(coll) : coll[k].id = i
    THEN coll[CHOOSE k \in 1..Len(coll) :
                /\ coll[k].id = i
                /\ \A j \in 1..(k-1) : coll[j].id # i]
    ELSE NoNode

IdsOf(coll) == { coll[k].id : k \in 1..Len(coll) }

\* path.map((n) => n.id)
MapIds(path) == [k \in 1..Len(path) |-> path[k].id]

\* Array.prototype.filter
RECURSIVE FilterSeq(_, _)
FilterSeq(s, keep) ==
    IF s = << >> THEN << >>
    ELSE (IF Head(s) \in keep THEN << Head(s) >> ELSE << >>) \o FilterSeq(Tail(s), keep)

\* the while loop of getMockPath: unshift current, step to the parent if it has one
RECURSIVE WalkUp(_, _, _)
WalkUp(coll, current, path) ==
    IF current = NoNode THEN path
    ELSE WalkUp(coll,
                IF current.parent_id # NULL THEN FindNode(coll, current.parent_id) ELSE NoNode,
                << current >> \o path)

\* variant: the walk pushes instead of unshifting, so the chain runs from the
\* node up to the root
getMockPathNodeFirst(nodeId) ==
    LET path == WalkUp(MOCK_NODES, FindNode(MOCK_NODES, nodeId), << >>)
    IN  [k \in 1..Len(path) |-> path[Len(path) + 1 - k]]

getMockPath(nodeId) == WalkUp(MOCK_NODES, FindNode(MOCK_NODES, nodeId), << >>)

LeavesOf(coll) ==
    LET parentIds == { coll[k].parent_id : k \in 1..Len(coll) } \ {NULL}
    IN  FilterSeq(coll, { coll[k] : k \in { j \in 1..Len(coll) : coll[j].id \notin parentIds } })

getMockLeaves == LeavesOf(MOCK_NODES)

(***************************************************************************)
(* The persistence collaborator behind lib/api (Tauri commands).           *)
(***************************************************************************)
TreeIds == {"t1", "t2"}

\* list_nodes(treeId); the second tree holds a node whose parent is not listed
DbNodes(t) ==
    IF t = "t1"
    THEN << Node("a", NULL), Node("b", "a") >>
    ELSE << Node("e", "x") >>

\* get_leaf_nodes(treeId)
DbLeaves(t) == LeavesOf(DbNodes(t))

DbAll == DbNodes("t1") \o DbNodes("t2")

\* get_node_path(nodeId): the root-to-node chain, or a rejection when the id is unknown
DbPath(nodeId) ==
    IF nodeId \in IdsOf(DbAll)
    THEN [ ok |-> TRUE,  path |-> WalkUp(DbAll, FindNode(DbAll, nodeId), << >>) ]
    ELSE [ ok |-> FALSE, path |-> << >> ]

(***************************************************************************)
(* Node collections handed to useTreeLayout as a free input: every forest  *)
(* over LayoutIds, in every order, a parent_id being null, another id of   *)
(* LayoutIds (in the collection or not) or the id "x" no collection holds. *)
(***************************************************************************)
LayoutIds == {"a", "b", "c"}

LayoutNodeRecords ==
    { Node(i, p) : i \in LayoutIds, p \in LayoutIds \cup {NULL, "x"} } \
        { Node(i, i) : i \in LayoutIds }

\* no id twice, and every parent chain ends
RECURSIVE ChainEnds(_, _, _)
ChainEnds(coll, i, fuel) ==
    LET node == FindNode(coll, i)
    IN  \/ node = NoNode
        \/ node.parent_id = NULL
        \/ fuel > 0 /\ ChainEnds(coll, node.parent_id, fuel - 1)

IsForest(coll) ==
    /\ \A j, k \in 1..Len(coll) : coll[j].id = coll[k].id => j = k
    /\ \A k \in 1..Len(coll) : ChainEnds(coll, coll[k].id, Len(coll))

LayoutCollections ==
    { coll \in UNION { [1..n -> LayoutNodeRecords] : n \in 0..Cardinality(LayoutIds) } :
        IsForest(coll) }

(***************************************************************************)
(* useTreeLayout.                                                          *)
(***************************************************************************)
NODE_WIDTH == 240
NODE_HEIGHT == 100
HORIZONTAL_SPACING == 60
VERTICAL_SPACING == 80
MARGIN_X == 40
MARGIN_Y == 40

AMBER == "#f59e0b"
GRAY == "#d1d5db"

\* highlightedPath?.includes(id), undefined (falsy) on null
Includes(hp, i) == (~hp.isNull) /\ (\E k \in 1..Len(hp.ids) : hp.ids[k] = i)

\* node.parent_id && nodeMap.has(node.parent_id)
HasParentInMap(conversationNodes, node) ==
    /\ node.parent_id # NULL
    /\ node.parent_id \in IdsOf(conversationNodes)

\* variant: the parent has to stand immediately before the child in the path
EdgeAdjacentOnPath(hp, node) ==
    (~hp.isNull) /\ (\E k \in 1..(Len(hp.ids) - 1) :
                        hp.ids[k] = node.parent_id /\ hp.ids[k + 1] = node.id)

\* variant: only the child end tested
EdgeChildOnPath(hp, node) == Includes(hp, node.id)

\* the condition of style.stroke / style.strokeWidth
EdgeOnPath(hp, node) == Includes(hp, node.id) /\ Includes(hp, node.parent_id)

\* variant: the edge drawn from the child to the parent
LayoutEdgeReversed(hp, node) ==
    [ id          |-> node.id \o "-" \o node.parent_id,
      source      |-> node.id,
      target      |-> node.parent_id,
      stroke      |-> IF EdgeOnPath(hp, node) THEN AMBER ELSE GRAY,
      strokeWidth |-> IF EdgeOnPath(hp, node) THEN 2 ELSE 1 ]

LayoutEdge(hp, node) ==
    [ id          |-> node.parent_id \o "-" \o node.id,
      source      |-> node.parent_id,
      target      |-> node.id,
      stroke      |-> IF EdgeOnPath(hp, node) THEN AMBER ELSE GRAY,
      strokeWidth |-> IF EdgeOnPath(hp, node) THEN 2 ELSE 1 ]

\* variant: an edge for every node that names a parent, the nodeMap.has test dropped
RECURSIVE BuildEdgesToAnyParent(_, _, _)
BuildEdgesToAnyParent(conversationNodes, rest, hp) ==
    IF rest = << >> THEN << >>
    ELSE (IF Head(rest).parent_id # NULL
          THEN << LayoutEdge(hp, Head(rest)) >>
          ELSE << >>) \o BuildEdgesToAnyParent(conversationNodes, Tail(rest), hp)

\* the forEach that pushes one edge per node whose parent is in nodeMap
RECURSIVE BuildEdges(_, _, _)
BuildEdges(conversationNodes, rest, hp) ==
    IF rest = << >> THEN << >>
    ELSE (IF HasParentInMap(conversationNodes, Head(rest))
          THEN << LayoutEdge(hp, Head(rest)) >>
          ELSE << >>) \o BuildEdges(conversationNodes, Tail(rest), hp)

\* --- dagre.layout(g), rankdir TB, on the forest handed to it -------------
\* the graph's edge into a node: g.setEdge(parent_id, id) was called for it
GraphParent(conversationNodes, node) ==
    IF HasParentInMap(conversationNodes, node) THEN node.parent_id ELSE NULL

\* rank: the length of the edge chain above the node
RECURSIVE DagreRank(_, _)
DagreRank(conversationNodes, i) ==
    LET p == GraphParent(conversationNodes, FindNode(conversationNodes, i))
    IN  IF p = NULL THEN 0 ELSE 1 + DagreRank(conversationNodes, p)

\* g.successors(v), in the order the edges were set
GraphChildren(conversationNodes, i) ==
    MapIds(FilterSeq(conversationNodes,
        { conversationNodes[k] : k \in { j \in 1..Len(conversationNodes) :
              GraphParent(conversationNodes, conversationNodes[j]) = i } }))

\* order within the ranks: depth-first from the rank-0 nodes in insertion order
RECURSIVE DagreOrder(_, _)
DagreOrder(conversationNodes, todo) ==
    IF todo = << >> THEN << >>
    ELSE << Head(todo) >> \o
         DagreOrder(conversationNodes,
                    GraphChildren(conversationNodes, Head(todo)) \o Tail(todo))

GraphRoots(conversationNodes) == GraphChildren(conversationNodes, NULL)

\* variant: nodesep not handed to setGraph, so that dagre's default of 50 applies
DagreComputeDefaultNodesep(conversationNodes) ==
    LET order == DagreOrder(conversationNodes, GraphRoots(conversationNodes))
        rank  == [ k \in 1..Len(order) |-> DagreRank(conversationNodes, order[k]) ]
    IN  [ k \in 1..Len(order) |->
            [ id |-> order[k],
              x  |-> MARGIN_X + (NODE_WIDTH \div 2)
                       + Cardinality({ j \in 1..(k - 1) : rank[j] = rank[k] })
                           * (NODE_WIDTH + 50),
              y  |-> MARGIN_Y + (NODE_HEIGHT \div 2)
                       + rank[k] * (NODE_HEIGHT + VERTICAL_SPACING) ] ]

\* dagre.layout(g): the centre of every node box. Ranks are NODE_HEIGHT + ranksep
\* apart, neighbours in a rank NODE_WIDTH + nodesep apart, inside the margins
DagreCompute(conversationNodes) ==
    LET order == DagreOrder(conversationNodes, GraphRoots(conversationNodes))
        rank  == [ k \in 1..Len(order) |-> DagreRank(conversationNodes, order[k]) ]
    IN  [ k \in 1..Len(order) |->
            [ id |-> order[k],
              x  |-> MARGIN_X + (NODE_WIDTH \div 2)
                       + Cardinality({ j \in 1..(k - 1) : rank[j] = rank[k] })
                           * (NODE_WIDTH + HORIZONTAL_SPACING),
              y  |-> MARGIN_Y + (NODE_HEIGHT \div 2)
                       + rank[k] * (NODE_HEIGHT + VERTICAL_SPACING) ] ]

\* DagreCompute of the collections the provider holds, evaluated once
DagreTable ==
    [ coll \in { MOCK_NODES } \cup { DbNodes(t) : t \in TreeIds } |-> DagreCompute(coll) ]

DagreLayout(conversationNodes) ==
    IF conversationNodes \in DOMAIN DagreTable
    THEN DagreTable[conversationNodes]
    ELSE DagreCompute(conversationNodes)

\* g.node(id)
DagreNode(g, i) == g[CHOOSE k \in 1..Len(g) : g[k].id = i]

NodeIsHighlighted(hp, node) == Includes(hp, node.id)

\* variant: the children of the selected node flagged too
NodeIsSelectedOrChild(selected, node) == node.id = selected \/ node.parent_id = selected

NodeIsSelected(selected, node) == node.id = selected

LayoutNode(g, selected, hp, node) ==
    LET dagreNode == DagreNode(g, node.id)
        isHighlighted == NodeIsHighlighted(hp, node)
        isSelected == NodeIsSelected(selected, node)
    IN  [ id            |-> node.id,
          className     |-> "node-" \o (IF isHighlighted THEN "highlighted" ELSE "normal")
                               \o "-" \o (IF isSelected THEN "selected" ELSE "unselected"),
          position      |-> [ x |-> dagreNode.x - (NODE_WIDTH \div 2),
                              y |-> dagreNode.y - (NODE_HEIGHT \div 2) ],
          isSelected    |-> isSelected,
          isHighlighted |-> isHighlighted ]

useTreeLayout(conversationNodes, selected, hp) ==
    IF Len(conversationNodes) = 0
    THEN [ nodes |-> << >>, edges |-> << >> ]
    ELSE LET g == DagreLayout(conversationNodes)
         IN  [ nodes |-> [ k \in 1..Len(conversationNodes) |->
                             LayoutNode(g, selected, hp, conversationNodes[k]) ],
               edges |-> BuildEdges(conversationNodes, conversationNodes, hp) ]

(***************************************************************************)
(* Inputs of the handlers.                                                 *)
(***************************************************************************)
\* ids handed to highlightPathToNode: a leaf the backend holds (its lookup is
\* fulfilled or rejected); in the browser build the leaves and an unknown id
TauriPathTargets == {"b"}

MockPathTargets == {"4", "5", "zz"}

PathTargets == IF isTauri THEN TauriPathTargets ELSE MockPathTargets

\* ids handed to setTreeId: the trees the sidebar lists, and null
TreeIdInputs == IF isTauri THEN TreeIds \cup {NULL} ELSE {"mock-tree"}

ArrowKeys == {"ArrowUp", "ArrowDown", "ArrowLeft", "ArrowRight"}

Keys == ArrowKeys \cup {"Escape", "Enter"}

\* document.activeElement: tag name, or "editable" for contenteditable="true"
ActiveElements == {"body", "input", "textarea", "editable"}

(***************************************************************************)
(* useArrowKeyNavigation.                                                  *)
(***************************************************************************)
THRESHOLD == 10

Abs(n) == IF n < 0 THEN 0 - n ELSE n

\* positionMap.get(id): [found, x, y]
PositionOf(layoutNodes, i) ==
    IF \E k \in 1..Len(layoutNodes) : layoutNodes[k].id = i
    THEN LET k == CHOOSE j \in 1..Len(layoutNodes) :
                      /\ layoutNodes[j].id = i
                      /\ \A m \in (j+1)..Len(layoutNodes) : layoutNodes[m].id # i
         IN  [ found |-> TRUE, x |-> layoutNodes[k].position.x, y |-> layoutNodes[k].position.y ]
    ELSE [ found |-> FALSE, x |-> 0, y |-> 0 ]

\* the sort comparator (a, b) => posA.x - posB.x, 0 when a position is missing
CompareX(layoutNodes, a, b) ==
    LET posA == PositionOf(layoutNodes, a.id)
        posB == PositionOf(layoutNodes, b.id)
    IN  IF ~posA.found \/ ~posB.found THEN 0 ELSE posA.x - posB.x

\* Array.prototype.sort (stable) with CompareX
RECURSIVE InsertByX(_, _, _)
InsertByX(layoutNodes, sorted, n) ==
    IF sorted = << >> THEN << n >>
    ELSE IF CompareX(layoutNodes, sorted[Len(sorted)], n) <= 0
         THEN Append(sorted, n)
         ELSE Append(InsertByX(layoutNodes, SubSeq(sorted, 1, Len(sorted) - 1), n),
                     sorted[Len(sorted)])

RECURSIVE SortByX(_, _)
SortByX(layoutNodes, s) ==
    IF s = << >> THEN << >>
    ELSE InsertByX(layoutNodes, SortByX(layoutNodes, SubSeq(s, 1, Len(s) - 1)), s[Len(s)])

getChildren(conversationNodes, layoutNodes, parentId) ==
    SortByX(layoutNodes,
        FilterSeq(conversationNodes,
            { conversationNodes[k] : k \in { j \in 1..Len(conversationNodes) :
                  conversationNodes[j].parent_id = parentId } }))

getNodesAtSameLevel(conversationNodes, layoutNodes, nodeId) ==
    LET pos == PositionOf(layoutNodes, nodeId)
    IN  IF ~pos.found THEN << >>
        ELSE SortByX(layoutNodes,
                FilterSeq(conversationNodes,
                    { conversationNodes[k] : k \in { j \in 1..Len(conversationNodes) :
                        LET nPos == PositionOf(layoutNodes, conversationNodes[j].id)
                        IN  nPos.found /\ Abs(nPos.y - pos.y) < THRESHOLD } }))

\* Array.prototype.findIndex by id, 0-based, -1 when absent
FindIndex(s, i) ==
    IF \E k \in 1..Len(s) : s[k].id = i
    THEN (CHOOSE k \in 1..Len(s) : s[k].id = i /\ \A j \in 1..(k-1) : s[j].id # i) - 1
    ELSE -1

\* lastVisitedChildRef.current.get(key), NULL for undefined
MapGet(map, key) == IF key \in DOMAIN map THEN map[key] ELSE NULL

\* lastVisitedChildRef.current.set(key, value)
MapSet(map, key, value) == (key :> value) @@ map

\* nodeMap.get(id): the last node with this id
NodeMapGet(conversationNodes, i) ==
    IF \E k \in 1..Len(conversationNodes) : conversationNodes[k].id = i
    THEN conversationNodes[CHOOSE k \in 1..Len(conversationNodes) :
             /\ conversationNodes[k].id = i
             /\ \A j \in (k+1)..Len(conversationNodes) : conversationNodes[j].id # i]
    ELSE NoNode

\* variant: ArrowUp on a node without parent targets the node itself
ArrowUpOrSelf(currentNode) ==
    IF currentNode.parent_id # NULL THEN currentNode.parent_id ELSE currentNode.id

\* variant: ArrowUp never finds a target
ArrowUpNowhere(currentNode) == NULL

ArrowUpTarget(currentNode) ==
    IF currentNode.parent_id # NULL THEN currentNode.parent_id ELSE NULL

\* variant: ArrowDown always takes the first child
ArrowDownLeftmost(conversationNodes, layoutNodes, selected, map) ==
    LET children == getChildren(conversationNodes, layoutNodes, selected)
    IN  IF Len(children) > 0 THEN children[1].id ELSE NULL

\* variant: ArrowDown takes the remembered child without looking for it among
\* the children
ArrowDownTrustingMap(conversationNodes, layoutNodes, selected, map) ==
    LET children == getChildren(conversationNodes, layoutNodes, selected)
        lastVisited == MapGet(map, selected)
    IN  IF Len(children) > 0
        THEN IF lastVisited # NULL THEN lastVisited ELSE children[1].id
        ELSE NULL

ArrowDownTarget(conversationNodes, layoutNodes, selected, map) ==
    LET children == getChildren(conversationNodes, layoutNodes, selected)
        lastVisited == MapGet(map, selected)
    IN  IF Len(children) > 0
        THEN IF lastVisited # NULL /\ \E k \in 1..Len(children) : children[k].id = lastVisited
             THEN lastVisited
             ELSE children[1].id
        ELSE NULL

\* variant: ArrowLeft wraps around from the first entry to the last
ArrowLeftWrapping(conversationNodes, layoutNodes, selected) ==
    LET levelNodes == getNodesAtSameLevel(conversationNodes, layoutNodes, selected)
        currentIndex == FindIndex(levelNodes, selected)
    IN  IF currentIndex > 0 THEN levelNodes[currentIndex].id
        ELSE IF currentIndex = 0 /\ Len(levelNodes) > 1 THEN levelNodes[Len(levelNodes)].id
        ELSE NULL

ArrowLeftTarget(conversationNodes, layoutNodes, selected) ==
    LET levelNodes == getNodesAtSameLevel(conversationNodes, layoutNodes, selected)
        currentIndex == FindIndex(levelNodes, selected)
    IN  IF currentIndex > 0 THEN levelNodes[currentIndex].id ELSE NULL

\* variant: ArrowRight jumps to the last entry of the level
ArrowRightToLast(conversationNodes, layoutNodes, selected) ==
    LET levelNodes == getNodesAtSameLevel(conversationNodes, layoutNodes, selected)
        currentIndex == FindIndex(levelNodes, selected)
    IN  IF currentIndex < Len(levelNodes) - 1 THEN levelNodes[Len(levelNodes)].id ELSE NULL

ArrowRightTarget(conversationNodes, layoutNodes, selected) ==
    LET levelNodes == getNodesAtSameLevel(conversationNodes, layoutNodes, selected)
        currentIndex == FindIndex(levelNodes, selected)
    IN  IF currentIndex < Len(levelNodes) - 1 THEN levelNodes[currentIndex + 2].id ELSE NULL

IsTextEditing(activeElement) == activeElement \in {"input", "textarea", "editable"}

\* handleKeyDown past its first early return (a node is selected): targetNodeId
\* at its end, NULL on every other early return
NavigateFrom(key, activeElement, layoutNodes) ==
    IF key \notin ArrowKeys THEN NULL
    ELSE IF IsTextEditing(activeElement) THEN NULL
    ELSE LET currentNode == NodeMapGet(nodes, selectedNodeId)
         IN  IF currentNode = NoNode THEN NULL
             ELSE CASE key = "ArrowUp"    -> ArrowUpTarget(currentNode)
                    [] key = "ArrowDown"  ->
                         ArrowDownTarget(nodes, layoutNodes, selectedNodeId, lastVisitedChild)
                    [] key = "ArrowLeft"  -> ArrowLeftTarget(nodes, layoutNodes, selectedNodeId)
                    [] key = "ArrowRight" -> ArrowRightTarget(nodes, layoutNodes, selectedNodeId)

\* variant: with nothing selected an arrow key selects the first node
handleKeyDownOrFirst(key, activeElement, layoutNodes) ==
    IF selectedNodeId = NULL
    THEN (IF key \in ArrowKeys /\ Len(nodes) > 0 THEN nodes[1].id ELSE NULL)
    ELSE NavigateFrom(key, activeElement, layoutNodes)

\* targetNodeId at the end of handleKeyDown, NULL on every early return
handleKeyDownTarget(key, activeElement, layoutNodes) ==
    IF selectedNodeId = NULL THEN NULL
    ELSE NavigateFrom(key, activeElement, layoutNodes)

\* variant: the effect empties the map when the selection is cleared
lastVisitedChildPruned(selected, conversationNodes, map) ==
    IF selected # NULL
    THEN LET node == NodeMapGet(conversationNodes, selected)
         IN  IF node.parent_id # NULL THEN MapSet(map, node.parent_id, selected) ELSE map
    ELSE << >>

\* variant: the effect records nothing
lastVisitedChildKept(selected, conversationNodes, map) == map

\* the effect on [selectedNodeId, nodeMap]: it rewrites the entry it wrote when
\* neither changed, so it is applied after every step
lastVisitedChildEffect(selected, conversationNodes, map) ==
    IF selected # NULL
    THEN LET node == NodeMapGet(conversationNodes, selected)
         IN  IF node.parent_id # NULL THEN MapSet(map, node.parent_id, selected) ELSE map
    ELSE map

(***************************************************************************)
(* CanvasProvider and TreeCanvasInner: the handlers.                       *)
(***************************************************************************)
\* the record of the last step; from is the selection an arrow key moved away
\* from, NULL for every other step
Op(name, arg, req, ok) ==
    [op |-> name, arg |-> arg, req |-> req, ok |-> ok, from |-> NULL]

\* variant: useMemo with conversationNodes as its only dependency
RenderOnNodesOnly ==
    layout' = IF nodes' = nodes
              THEN layout
              ELSE useTreeLayout(nodes', selectedNodeId', highlightedPath')

\* the re-render: useMemo recomputes useTreeLayout when a dependency changed
Render ==
    layout' = IF <<nodes', selectedNodeId', highlightedPath'>>
                   = <<nodes, selectedNodeId, highlightedPath>>
              THEN layout
              ELSE useTreeLayout(nodes', selectedNodeId', highlightedPath')

\* a handler's re-render and the passive effects that follow it
Commit ==
    /\ Render
    /\ lastVisitedChild' = lastVisitedChildEffect(selectedNodeId', nodes', lastVisitedChild)

\* variant: the nodes on the path in the order of the collection
pathNodesInCollectionOrder(conversationNodes, hp) ==
    FilterSeq(conversationNodes,
              { conversationNodes[k] : k \in { j \in 1..Len(conversationNodes) :
                    Includes(hp, conversationNodes[j].id) } })

\* variant: the ids without a node are kept as undefined entries
highlightedPathNodesUnfiltered(conversationNodes, hp) ==
    IF hp.isNull THEN << >>
    ELSE [k \in 1..Len(hp.ids) |-> FindNode(conversationNodes, hp.ids[k])]

\* highlightedPathNodes of CanvasProvider, computed at every render: map each
\* id through nodes.find, filter out undefined; [] for a null path
highlightedPathNodes(conversationNodes, hp) ==
    IF hp.isNull THEN << >>
    ELSE LET found == [k \in 1..Len(hp.ids) |-> FindNode(conversationNodes, hp.ids[k])]
         IN  FilterSeq(found, { found[k] : k \in 1..Len(found) } \ {NoNode})

\* TreeCanvasInner renders ReactFlow and PathButtons only past its three early returns
CanvasShown == (~isLoading) /\ error = NULL /\ Len(nodes) > 0

\* variant: the staleness test loosened to "not newer than the counter"
IsLatestOrOlder(requestId) == requestId <= pathRequestIdRef

\* requestId === pathRequestIdRef.current
IsLatest(requestId) == requestId = pathRequestIdRef

\* variant: the new ids appended to the ids already highlighted
MergedHighlight(path) ==
    Path((IF highlightedPath.isNull THEN << >> ELSE highlightedPath.ids) \o MapIds(path))

\* setHighlightedPath(path.map((n) => n.id))
ResolvedHighlight(path) == Path(MapIds(path))

\* history: every suspended call has seen a clearHighlightedPath
MarkCleared(requests) == { [r EXCEPT !.cleared = TRUE] : r \in requests }

\* history: every suspended call has seen a tree unload
MarkUnloaded(requests) == { [r EXCEPT !.unloaded = TRUE] : r \in requests }

\* variant: clearHighlightedPath without the increment
ClearNoBump == pathRequestIdRef

\* pathRequestIdRef.current += 1 in clearHighlightedPath
ClearBump == pathRequestIdRef + 1

\* the body of clearHighlightedPath
ClearEffects ==
    /\ pathRequestIdRef' = ClearBump
    /\ highlightedPath' = NoPath
    /\ pathRequests' = MarkCleared(pathRequests)

\* variant: a clear that also drops the selection
clearAndDeselect ==
    /\ pathRequestIdRef < MaxRequests
    /\ ClearEffects
    /\ selectedNodeId' = NULL
    /\ lastOp' = Op("clearHighlightedPath", NULL, 0, TRUE)
    /\ UNCHANGED <<isTauri, treeId, nodes, leafNodes, isLoading, error, nodeLoads>>
    /\ UNCHANGED walk
    /\ UNCHANGED streamVars
    /\ Commit

clearHighlightedPath ==
    /\ pathRequestIdRef < MaxRequests
    /\ ClearEffects
    /\ lastOp' = Op("clearHighlightedPath", NULL, 0, TRUE)
    /\ UNCHANGED <<isTauri, treeId, nodes, leafNodes, isLoading, error, selectedNodeId,
                   nodeLoads>>
    /\ UNCHANGED walk
    /\ UNCHANGED streamVars
    /\ Commit

\* variant: highlightPathToNode tags the call with the counter as it stands
highlightPathToNodeReusingTag(nodeId) ==
    /\ pathRequestIdRef < MaxRequests
    /\ pathRequests' = pathRequests \cup
           { [requestId |-> pathRequestIdRef, nodeId |-> nodeId,
              cleared |-> FALSE, unloaded |-> FALSE] }
    /\ lastOp' = Op("highlightPathToNode", NULL, pathRequestIdRef, TRUE)
    /\ UNCHANGED <<isTauri, treeId, nodes, leafNodes, isLoading, error, selectedNodeId,
                   highlightedPath, nodeLoads, pathRequestIdRef>>
    /\ UNCHANGED walk
    /\ UNCHANGED streamVars
    /\ Commit

\* highlightPathToNode up to its await
highlightPathToNode(nodeId) ==
    /\ pathRequestIdRef < MaxRequests
    /\ pathRequestIdRef' = pathRequestIdRef + 1
    /\ pathRequests' = pathRequests \cup
           { [requestId |-> pathRequestIdRef + 1, nodeId |-> nodeId,
              cleared |-> FALSE, unloaded |-> FALSE] }
    /\ lastOp' = Op("highlightPathToNode", NULL, pathRequestIdRef + 1, TRUE)
    /\ UNCHANGED <<isTauri, treeId, nodes, leafNodes, isLoading, error, selectedNodeId,
                   highlightedPath, nodeLoads>>
    /\ UNCHANGED walk
    /\ UNCHANGED streamVars
    /\ Commit

\* what the awaited lookup yields when no I/O error occurs
LookupResult(nodeId) ==
    IF isTauri THEN DbPath(nodeId) ELSE [ ok |-> TRUE, path |-> getMockPath(nodeId) ]

\* history: what had happened since the completing call was issued
Note(r) ==
    IF r.cleared THEN "cleared"
    ELSE IF r.unloaded THEN "unloaded"
    ELSE IF r.requestId < pathRequestIdRef THEN "superseded"
    ELSE "latest"

\* highlightPathToNode after its await, the lookup fulfilled
PathResolved(r) ==
    /\ r \in pathRequests
    /\ LookupResult(r.nodeId).ok
    /\ pathRequests' = pathRequests \ {r}
    /\ IF IsLatest(r.requestId)
       THEN highlightedPath' = ResolvedHighlight(LookupResult(r.nodeId).path)
       ELSE UNCHANGED highlightedPath
    /\ lastOp' = Op("pathResolved", Note(r), r.requestId, TRUE)
    /\ UNCHANGED <<isTauri, treeId, nodes, leafNodes, isLoading, error, selectedNodeId,
                   pathRequestIdRef, nodeLoads>>
    /\ UNCHANGED walk
    /\ UNCHANGED streamVars
    /\ Commit

\* variant: the catch takes the failed call's increment back
PathRejectedRollingBack(r) ==
    /\ isTauri
    /\ r \in pathRequests
    /\ pathRequests' = pathRequests \ {r}
    /\ pathRequestIdRef' = IF IsLatest(r.requestId) THEN pathRequestIdRef - 1
                           ELSE pathRequestIdRef
    /\ lastOp' = Op("pathRejected", Note(r), r.requestId, FALSE)
    /\ UNCHANGED <<isTauri, treeId, nodes, leafNodes, isLoading, error, selectedNodeId,
                   highlightedPath, nodeLoads>>
    /\ UNCHANGED walk
    /\ UNCHANGED streamVars
    /\ Commit

\* highlightPathToNode after its await, nodesApi.getPath rejected (unknown id, or
\* an I/O error): the catch logs
PathRejected(r) ==
    /\ isTauri
    /\ r \in pathRequests
    /\ pathRequests' = pathRequests \ {r}
    /\ lastOp' = Op("pathRejected", Note(r), r.requestId, FALSE)
    /\ UNCHANGED <<isTauri, treeId, nodes, leafNodes, isLoading, error, selectedNodeId,
                   highlightedPath, pathRequestIdRef, nodeLoads>>
    /\ UNCHANGED walk
    /\ UNCHANGED streamVars
    /\ Commit

\* refreshNodes up to its await (or to its return); the model holds at most one
\* suspended call per tree
RefreshEffects(tid) ==
    IF ~isTauri
    THEN /\ nodes' = MOCK_NODES
         /\ leafNodes' = getMockLeaves
         /\ UNCHANGED <<isLoading, error, nodeLoads>>
    ELSE IF tid = NULL
    THEN /\ nodes' = << >>
         /\ leafNodes' = << >>
         /\ UNCHANGED <<isLoading, error, nodeLoads>>
    ELSE /\ tid \notin nodeLoads
         /\ isLoading' = TRUE
         /\ error' = NULL
         /\ nodeLoads' = nodeLoads \cup {tid}
         /\ UNCHANGED <<nodes, leafNodes>>

refreshNodes ==
    /\ RefreshEffects(treeId)
    /\ lastOp' = Op("refreshNodes", NULL, 0, TRUE)
    /\ UNCHANGED <<isTauri, treeId, selectedNodeId, highlightedPath, pathRequestIdRef,
                   pathRequests>>
    /\ UNCHANGED walk
    /\ UNCHANGED streamVars
    /\ Commit

\* refreshNodes after its await, both lists fetched
NodeLoadResolved(tid) ==
    /\ tid \in nodeLoads
    /\ nodeLoads' = nodeLoads \ {tid}
    /\ nodes' = DbNodes(tid)
    /\ leafNodes' = DbLeaves(tid)
    /\ isLoading' = FALSE
    /\ lastOp' = Op("nodeLoadResolved", NULL, 0, TRUE)
    /\ UNCHANGED <<isTauri, treeId, error, selectedNodeId, highlightedPath, pathRequestIdRef,
                   pathRequests>>
    /\ UNCHANGED walk
    /\ UNCHANGED streamVars
    /\ Commit

\* refreshNodes after its await, a fetch rejected
NodeLoadRejected(tid) ==
    /\ tid \in nodeLoads
    /\ nodeLoads' = nodeLoads \ {tid}
    /\ error' = "Failed to load nodes"
    /\ isLoading' = FALSE
    /\ lastOp' = Op("nodeLoadRejected", NULL, 0, FALSE)
    /\ UNCHANGED <<isTauri, treeId, nodes, leafNodes, selectedNodeId, highlightedPath,
                   pathRequestIdRef, pathRequests>>
    /\ UNCHANGED walk
    /\ UNCHANGED streamVars
    /\ Commit

\* the reset branch of the treeId effect
UnloadEffects ==
    /\ nodes' = << >>
    /\ leafNodes' = << >>
    /\ selectedNodeId' = NULL
    /\ highlightedPath' = NoPath
    /\ pathRequests' = MarkUnloaded(pathRequests)
    /\ UNCHANGED <<pathRequestIdRef, isLoading, error, nodeLoads>>

\* setTreeId(id) with a new value, and the effect on [treeId, refreshNodes]
\* (loadTree, which fetches the tree's header record into `tree`, is left out:
\* no handler or derived value of this module reads `tree`)
setTreeId(tid) ==
    /\ tid # treeId
    /\ treeId' = tid
    /\ IF ~isTauri
       THEN UNCHANGED <<nodes, leafNodes, isLoading, error, nodeLoads, selectedNodeId,
                        highlightedPath, pathRequestIdRef, pathRequests>>
       ELSE IF tid = NULL
       THEN UnloadEffects
       ELSE /\ RefreshEffects(tid)
            /\ UNCHANGED <<selectedNodeId, highlightedPath, pathRequestIdRef, pathRequests>>
    /\ lastOp' = Op("setTreeId", NULL, 0, TRUE)
    /\ UNCHANGED isTauri
    /\ UNCHANGED walk
    /\ UNCHANGED streamVars
    /\ Commit

\* variant: a node click that also clears the highlighted path
onNodeClickClearing(nodeId) ==
    /\ CanvasShown
    /\ pathRequestIdRef < MaxRequests
    /\ selectedNodeId' = nodeId
    /\ ClearEffects
    /\ lastOp' = Op("onNodeClick", NULL, 0, TRUE)
    /\ UNCHANGED <<isTauri, treeId, nodes, leafNodes, isLoading, error, nodeLoads>>
    /\ UNCHANGED walk
    /\ UNCHANGED streamVars
    /\ Commit

onNodeClick(nodeId) ==
    /\ CanvasShown
    /\ selectedNodeId' = nodeId
    /\ lastOp' = Op("onNodeClick", NULL, 0, TRUE)
    /\ UNCHANGED <<isTauri, treeId, nodes, leafNodes, isLoading, error, highlightedPath,
                   pathRequestIdRef, pathRequests, nodeLoads>>
    /\ UNCHANGED walk
    /\ UNCHANGED streamVars
    /\ Commit

\* variant: a pane click that drops the selection only
onPaneClickDeselectOnly ==
    /\ CanvasShown
    /\ pathRequestIdRef < MaxRequests
    /\ selectedNodeId' = NULL
    /\ lastOp' = Op("onPaneClick", NULL, 0, TRUE)
    /\ UNCHANGED <<isTauri, treeId, nodes, leafNodes, isLoading, error, nodeLoads,
                   highlightedPath, pathRequestIdRef, pathRequests>>
    /\ UNCHANGED walk
    /\ UNCHANGED streamVars
    /\ Commit

onPaneClick ==
    /\ CanvasShown
    /\ pathRequestIdRef < MaxRequests
    /\ selectedNodeId' = NULL
    /\ ClearEffects
    /\ lastOp' = Op("onPaneClick", NULL, 0, TRUE)
    /\ UNCHANGED <<isTauri, treeId, nodes, leafNodes, isLoading, error, nodeLoads>>
    /\ UNCHANGED walk
    /\ UNCHANGED streamVars
    /\ Commit

\* one keydown event on window: handleKeyDown of useArrowKeyNavigation, then the
\* Escape listener of TreeCanvasInner; arg records which listener acted (the arrow
\* key of a move, "escape" or none), ok records e.defaultPrevented
KeyDown(key, activeElement) ==
    \E targetNodeId \in { handleKeyDownTarget(key, activeElement, layout.nodes) } :
        /\ IF targetNodeId # NULL
           THEN /\ selectedNodeId' = targetNodeId
                /\ UNCHANGED <<highlightedPath, pathRequestIdRef, pathRequests>>
           ELSE IF key = "Escape" /\ selectedNodeId # NULL
           THEN /\ pathRequestIdRef < MaxRequests
                /\ selectedNodeId' = NULL
                /\ ClearEffects
           ELSE UNCHANGED <<selectedNodeId, highlightedPath, pathRequestIdRef, pathRequests>>
        /\ lastOp' = [ Op("keydown",
                           IF targetNodeId # NULL THEN key
                           ELSE IF key = "Escape" /\ selectedNodeId # NULL THEN "escape"
                           ELSE NULL,
                           0, targetNodeId # NULL)
                        EXCEPT !.from = IF targetNodeId # NULL THEN selectedNodeId ELSE NULL ]
        /\ UNCHANGED <<isTauri, treeId, nodes, leafNodes, isLoading, error, nodeLoads>>
        /\ UNCHANGED walk
        /\ UNCHANGED streamVars
        /\ Commit

Init ==
    /\ isTauri \in BOOLEAN
    /\ treeId = IF isTauri THEN NULL ELSE "mock-tree"
    /\ nodes = IF isTauri THEN << >> ELSE MOCK_NODES
    /\ leafNodes = IF isTauri THEN << >> ELSE getMockLeaves
    /\ isLoading = FALSE
    /\ error = NULL
    /\ selectedNodeId = NULL
    /\ highlightedPath = NoPath
    /\ pathRequestIdRef = 0
    /\ pathRequests = {}
    /\ nodeLoads = {}
    /\ lastVisitedChild = << >>
    /\ layout = useTreeLayout(nodes, selectedNodeId, highlightedPath)
    /\ lastOp = Op("mount", NULL, 0, TRUE)
    /\ walk = NoWalk
    /\ StreamingMounted

Next ==
    \/ clearHighlightedPath
    \/ \E nodeId \in PathTargets : highlightPathToNode(nodeId)
    \/ \E r \in pathRequests : PathResolved(r)
    \/ \E r \in pathRequests : PathRejected(r)
    \/ refreshNodes
    \/ \E tid \in TreeIds : NodeLoadResolved(tid)
    \/ \E tid \in TreeIds : NodeLoadRejected(tid)
    \/ \E tid \in TreeIdInputs : setTreeId(tid)
    \/ \E nodeId \in IdsOf(layout.nodes) : onNodeClick(nodeId)
    \/ onPaneClick
    \/ \E key \in Keys, activeElement \in ActiveElements : KeyDown(key, activeElement)

Spec == Init /\ [][Next]_vars

(***************************************************************************)
(* useTreeLayout as a function of its three arguments. TreeCanvasInner is  *)
(* first rendered with any collection of LayoutCollections, nothing        *)
(* selected and no path highlighted; one update then gives selectedNodeId  *)
(* and highlightedPath any value (paths of up to MaxPathLen ids), and the  *)
(* re-render applies useTreeLayout to them.                                *)
(***************************************************************************)
LayoutPaths ==
    { NoPath } \cup { Path(ids) : ids \in UNION { [1..n -> LayoutIds] : n \in 0..MaxPathLen } }

LayoutInit ==
    /\ isTauri = TRUE
    /\ treeId = "t1"
    /\ nodes \in LayoutCollections
    /\ leafNodes = LeavesOf(nodes)
    /\ isLoading = FALSE
    /\ error = NULL
    /\ selectedNodeId = NULL
    /\ highlightedPath = NoPath
    /\ pathRequestIdRef = 0
    /\ pathRequests = {}
    /\ nodeLoads = {}
    /\ lastVisitedChild = << >>
    /\ layout = useTreeLayout(nodes, selectedNodeId, highlightedPath)
    /\ lastOp = Op("mount", NULL, 0, TRUE)
    /\ walk = NoWalk
    /\ StreamingMounted

\* setSelectedNodeId(selected) and setHighlightedPath(hp) in one batch, and the
\* re-render with the new dependencies
Rerender(selected, hp) ==
    /\ lastOp.op = "mount"
    /\ selectedNodeId' = selected
    /\ highlightedPath' = hp
    /\ lastOp' = Op("useTreeLayout", NULL, 0, TRUE)
    /\ UNCHANGED <<isTauri, treeId, nodes, leafNodes, isLoading, error,
                   pathRequestIdRef, pathRequests, nodeLoads, lastVisitedChild>>
    /\ UNCHANGED walk
    /\ UNCHANGED streamVars
    /\ Render

LayoutNext ==
    \E selected \in LayoutIds \cup {NULL}, hp \in LayoutPaths : Rerender(selected, hp)

LayoutSpec == LayoutInit /\ [][LayoutNext]_vars

(***************************************************************************)
(* useArrowKeyNavigation on every collection of LayoutCollections: the     *)
(* canvas shows the collection with nothing selected; lastVisitedChildRef  *)
(* holds at most one entry left by an earlier collection (its child may no *)
(* longer be a child of its parent). Nodes are clicked and arrow keys      *)
(* pressed with the focus on the document body.                            *)
(***************************************************************************)
EarlierVisits ==
    { << >> } \cup
    { pc[1] :> pc[2] : pc \in { q \in LayoutIds \X LayoutIds : q[1] # q[2] } }

NavInit ==
    /\ isTauri = TRUE
    /\ treeId = "t1"
    /\ nodes \in LayoutCollections
    /\ leafNodes = LeavesOf(nodes)
    /\ isLoading = FALSE
    /\ error = NULL
    /\ selectedNodeId = NULL
    /\ highlightedPath = NoPath
    /\ pathRequestIdRef = 0
    /\ pathRequests = {}
    /\ nodeLoads = {}
    /\ lastVisitedChild \in EarlierVisits
    /\ layout = useTreeLayout(nodes, selectedNodeId, highlightedPath)
    /\ lastOp = Op("mount", NULL, 0, TRUE)
    /\ walk = NoWalk
    /\ StreamingMounted

NavNext ==
    \/ \E nodeId \in IdsOf(layout.nodes) : onNodeClick(nodeId)
    \/ \E key \in ArrowKeys : KeyDown(key, "body")

NavSpec == NavInit /\ [][NavNext]_vars

(***************************************************************************)
(* Properties of the path highlight requests (checked under Spec).         *)
(***************************************************************************)
\* the step completes the suspended call r: its lookup was fulfilled or rejected
Completes(r) ==
    /\ r \in pathRequests
    /\ \A q \in pathRequests' : q.requestId # r.requestId

\* the id sequence a fulfilled lookup of r yields
IdsFor(r) == MapIds(LookupResult(r.nodeId).path)

\* C1: a highlightPathToNode call that is no longer the last one issued never
\* writes highlightedPath when it completes, in whatever order the lookups
\* complete; the last call issued, once its lookup finds the node, sets
\* highlightedPath to its own path, so that path is the final value.
C1_LastIssuedWins ==
    [][ \A r \in pathRequests : Completes(r) =>
          /\ (r.requestId < pathRequestIdRef) => (highlightedPath' = highlightedPath)
          /\ (r.requestId = pathRequestIdRef /\ lastOp'.op = "pathResolved"
                 /\ IdsFor(r) # << >>)
               => (highlightedPath' = Path(IdsFor(r))) ]_vars

\* two calls were issued, the second was answered first and the answer to the
\* first arrived last: the path of the second ("5") is highlighted
C1_Witness ==
    /\ lastOp = Op("pathResolved", "superseded", 1, TRUE)
    /\ pathRequestIdRef = 2
    /\ pathRequests = {}
    /\ highlightedPath = Path(<< "1", "3", "5" >>)

\* C2: clearHighlightedPath leaves highlightedPath absent, and a call of
\* highlightPathToNode that was suspended when clearHighlightedPath ran never
\* writes highlightedPath when it completes.
C2_ClearInvalidatesInFlight ==
    [][ /\ (lastOp'.op = "clearHighlightedPath") => highlightedPath'.isNull
        /\ \A r \in pathRequests :
              (r.cleared /\ Completes(r)) => (highlightedPath' = highlightedPath) ]_vars

\* a lookup issued before a clear was fulfilled after it, and nothing is highlighted
C2_Witness ==
    /\ lastOp.op = "pathResolved"
    /\ lastOp.arg = "cleared"
    /\ lastOp.req = pathRequestIdRef - 1
    /\ highlightedPath.isNull

\* C3: a call of highlightPathToNode that was suspended when the tree was
\* unloaded (treeId set to null, highlightedPath reset) never writes
\* highlightedPath when it completes.
C3_UnloadInvalidatesInFlight ==
    [][ \A r \in pathRequests :
          (r.unloaded /\ Completes(r)) => (highlightedPath' = highlightedPath) ]_vars

\* the lookup did not find the node: it was rejected, or it yielded no node
LookupFailed(r) == lastOp'.op = "pathRejected" \/ IdsFor(r) = << >>

\* C4: a path lookup that fails (rejected, or node id not found) leaves
\* highlightedPath exactly as it was before the lookup completed.
C4_FailedLookupWritesNothing ==
    [][ \A r \in pathRequests :
          (Completes(r) /\ LookupFailed(r)) => (highlightedPath' = highlightedPath) ]_vars

\* the id sequences of the lookups that can be fulfilled, per build
TauriSinglePaths ==
    { Path(MapIds(DbPath(nodeId).path)) : nodeId \in { n \in TauriPathTargets : DbPath(n).ok } }

MockSinglePaths == { Path(MapIds(getMockPath(nodeId))) : nodeId \in MockPathTargets }

\* the values highlightedPath takes: absent, or the one id sequence of a lookup
SinglePaths ==
    { NoPath } \cup (IF isTauri THEN TauriSinglePaths ELSE MockSinglePaths)

\* C5: when the last call issued has its lookup fulfilled, highlightedPath
\* becomes exactly the id sequence of that lookup, whatever it held before;
\* before and after every step highlightedPath is absent or the id sequence of
\* one lookup, never ids of two.
C5_AtomicReplace ==
    [][ /\ highlightedPath \in SinglePaths
        /\ highlightedPath' \in SinglePaths
        /\ \A r \in pathRequests :
             (Completes(r) /\ r.requestId = pathRequestIdRef /\ lastOp'.op = "pathResolved")
               => (highlightedPath' = Path(IdsFor(r))) ]_vars

\* the second of two lookups was fulfilled after the first: only its path
\* ("5") is highlighted
C5_Witness ==
    /\ lastOp = Op("pathResolved", "latest", 2, TRUE)
    /\ pathRequests = {}
    /\ highlightedPath = Path(<< "1", "3", "5" >>)

\* C6: a step that selects a node (setSelectedNodeId with an id: a node click
\* or a keyboard move) leaves highlightedPath, the request counter, the
\* suspended lookups and the loaded data unchanged.
C6_SelectFrame ==
    [][ (\/ (selectedNodeId' # selectedNodeId /\ selectedNodeId' # NULL)
         \/ lastOp'.op = "onNodeClick"
         \/ (lastOp'.op = "keydown" /\ lastOp'.ok))
        => /\ highlightedPath' = highlightedPath
           /\ pathRequestIdRef' = pathRequestIdRef
           /\ pathRequests' = pathRequests
           /\ <<treeId, nodes, leafNodes, isLoading, error>>'
                = <<treeId, nodes, leafNodes, isLoading, error>> ]_vars

\* a keyboard move was made while a path was highlighted and a lookup suspended
C6_Witness ==
    /\ lastOp.op = "keydown"
    /\ lastOp.ok
    /\ selectedNodeId # NULL
    /\ ~highlightedPath.isNull
    /\ pathRequests # {}
    /\ pathRequestIdRef > 1

\* C7: issuing a path lookup, its completion (fulfilled or rejected) and
\* clearHighlightedPath leave selectedNodeId and lastVisitedChild unchanged;
\* a keyboard move leaves highlightedPath unchanged.
C7_Independence ==
    [][ /\ (lastOp'.op \in { "highlightPathToNode", "pathResolved", "pathRejected",
                             "clearHighlightedPath" })
             => /\ selectedNodeId' = selectedNodeId
                /\ lastVisitedChild' = lastVisitedChild
        /\ (lastOp'.op = "keydown" /\ lastOp'.ok)
             => (highlightedPath' = highlightedPath) ]_vars

\* a node is selected, a child was visited, and clearHighlightedPath has just
\* left no path highlighted
C7_Witness ==
    /\ lastOp.op = "clearHighlightedPath"
    /\ selectedNodeId # NULL
    /\ DOMAIN lastVisitedChild # {}
    /\ highlightedPath.isNull
    /\ pathRequests # {}

(***************************************************************************)
(* Properties of useTreeLayout (checked under LayoutSpec).                 *)
(***************************************************************************)
InPath(hp, i) == (~hp.isNull) /\ (\E k \in 1..Len(hp.ids) : hp.ids[k] = i)

\* p immediately before c
Adjacent(hp, p, c) ==
    (~hp.isNull) /\ (\E k \in 1..(Len(hp.ids) - 1) : hp.ids[k] = p /\ hp.ids[k + 1] = c)

EdgeHighlighted(e) == e.stroke = AMBER /\ e.strokeWidth = 2

EdgePlain(e) == e.stroke = GRAY /\ e.strokeWidth = 1

\* hp runs down parent links of coll: every entry after the first is a node of
\* coll whose parent_id is the entry before it
IsParentChain(hp, coll) ==
    (~hp.isNull) /\ (\A k \in 2..Len(hp.ids) : FindNode(coll, hp.ids[k]).parent_id = hp.ids[k - 1])

\* C8 (as amended): a layout edge p->c is highlighted iff p and c are both
\* members of highlightedPath; when highlightedPath runs down parent links of
\* the collection, that is the same as p immediately preceding c in it.
C8_EdgeHighlightByMembership ==
    \A k \in 1..Len(layout.edges) :
        LET e == layout.edges[k]
        IN  /\ EdgeHighlighted(e) <=> (InPath(highlightedPath, e.source) /\ InPath(highlightedPath, e.target))
            /\ EdgeHighlighted(e) \/ EdgePlain(e)
            /\ (highlightedPath.isNull \/ IsParentChain(highlightedPath, nodes))
                 => (EdgeHighlighted(e) <=> Adjacent(highlightedPath, e.source, e.target))

\* C8 (as stated): for every highlightedPath and every collection, a layout
\* edge p->c is highlighted iff p immediately precedes c in highlightedPath.
C8_EdgeHighlightByAdjacency ==
    \A k \in 1..Len(layout.edges) :
        EdgeHighlighted(layout.edges[k])
          <=> Adjacent(highlightedPath, layout.edges[k].source, layout.edges[k].target)

\* a two-id parent chain is highlighted: one edge is on it, another is not
C8_Witness ==
    /\ lastOp.op = "useTreeLayout"
    /\ IsParentChain(highlightedPath, nodes)
    /\ Len(highlightedPath.ids) = 2
    /\ \E k \in 1..Len(layout.edges) : EdgeHighlighted(layout.edges[k])
    /\ \E k \in 1..Len(layout.edges) : EdgePlain(layout.edges[k])

\* C9: a layout node is selected iff its id is selectedNodeId and highlighted
\* iff its id is a member of highlightedPath (never when it is absent); at
\* most one layout node is selected.
C9_NodeFlags ==
    /\ \A k \in 1..Len(layout.nodes) :
          /\ layout.nodes[k].isSelected <=> (layout.nodes[k].id = selectedNodeId)
          /\ layout.nodes[k].isHighlighted <=> InPath(highlightedPath, layout.nodes[k].id)
    /\ Cardinality({ k \in 1..Len(layout.nodes) : layout.nodes[k].isSelected }) <= 1

\* three nodes: one selected and not highlighted, one highlighted and not
\* selected, one neither
C9_Witness ==
    /\ lastOp.op = "useTreeLayout"
    /\ \E k \in 1..Len(layout.nodes) :
          layout.nodes[k].isSelected /\ ~layout.nodes[k].isHighlighted
    /\ \E k \in 1..Len(layout.nodes) :
          layout.nodes[k].isHighlighted /\ ~layout.nodes[k].isSelected
    /\ \E k \in 1..Len(layout.nodes) :
          (~layout.nodes[k].isHighlighted) /\ ~layout.nodes[k].isSelected

\* the node names a parent that the collection does not hold
Dangling(coll, node) == node.parent_id # NULL /\ node.parent_id \notin IdsOf(coll)

\* C10: both ends of every layout edge are ids of the collection; a node whose
\* parent_id is not an id of the collection has a layout node, on the top rank
\* like a root, and no edge into it.
C10_DanglingParentIsRoot ==
    /\ \A k \in 1..Len(layout.edges) :
          layout.edges[k].source \in IdsOf(nodes) /\ layout.edges[k].target \in IdsOf(nodes)
    /\ \A k \in 1..Len(nodes) : Dangling(nodes, nodes[k]) =>
          /\ \A j \in 1..Len(layout.edges) : layout.edges[j].target # nodes[k].id
          /\ \E j \in 1..Len(layout.nodes) :
                /\ layout.nodes[j].id = nodes[k].id
                /\ layout.nodes[j].position.y = MARGIN_Y

\* a collection with a dangling node beside a parent and its child
C10_Witness ==
    /\ lastOp.op = "useTreeLayout"
    /\ \E k \in 1..Len(nodes) : Dangling(nodes, nodes[k])
    /\ Len(layout.edges) > 0
    /\ Len(layout.nodes) = 3


(***************************************************************************)
(* The two keydown listeners over the browser-only tree: every key under   *)
(* every focus, with clicks to select.                                     *)
(***************************************************************************)
KeyInit == Init /\ ~isTauri

KeyNext ==
    \/ \E nodeId \in IdsOf(layout.nodes) : onNodeClick(nodeId)
    \/ \E key \in Keys, activeElement \in ActiveElements : KeyDown(key, activeElement)

KeySpec == KeyInit /\ [][KeyNext]_vars

(***************************************************************************)
(* The canvas after a switch to a tree of at most one node: the effect on  *)
(* treeId replaces the collection and keeps selectedNodeId, highlightedPath *)
(* and lastVisitedChild, which may all name nodes of the tree before.      *)
(***************************************************************************)
LeftoverCollections == { coll \in LayoutCollections : Len(coll) <= 1 }

LeftoverInit ==
    /\ isTauri = TRUE
    /\ treeId = "t1"
    /\ nodes \in LeftoverCollections
    /\ leafNodes = LeavesOf(nodes)
    /\ isLoading = FALSE
    /\ error = NULL
    /\ selectedNodeId \in LayoutIds \cup {NULL}
    /\ highlightedPath \in LayoutPaths
    /\ pathRequestIdRef = 0
    /\ pathRequests = {}
    /\ nodeLoads = {}
    /\ lastVisitedChild \in EarlierVisits
    /\ layout = useTreeLayout(nodes, selectedNodeId, highlightedPath)
    /\ lastOp = Op("mount", NULL, 0, TRUE)
    /\ walk = NoWalk
    /\ StreamingMounted

LeftoverNext ==
    \/ \E nodeId \in IdsOf(layout.nodes) : onNodeClick(nodeId)
    \/ \E key \in ArrowKeys : KeyDown(key, "body")

LeftoverSpec == LeftoverInit /\ [][LeftoverNext]_vars

(***************************************************************************)
(* getMockPath step by step: one call on a collection, one action per      *)
(* iteration of its while loop. The collection is the browser-only tree or *)
(* any forest over LayoutIds, dangling parent ids included; the loop runs  *)
(* without interruption, hence the weak fairness of its steps.             *)
(***************************************************************************)
WalkCollections == LayoutCollections \cup { MOCK_NODES }

\* ids handed to the walk: the ids of the collection and one it does not hold
WalkTargets == IdsOf(nodes) \cup {"zz"}

WalkInit ==
    /\ isTauri = FALSE
    /\ treeId = "mock-tree"
    /\ nodes \in WalkCollections
    /\ leafNodes = LeavesOf(nodes)
    /\ isLoading = FALSE
    /\ error = NULL
    /\ selectedNodeId = NULL
    /\ highlightedPath = NoPath
    /\ pathRequestIdRef = 0
    /\ pathRequests = {}
    /\ nodeLoads = {}
    /\ lastVisitedChild = << >>
    /\ layout = useTreeLayout(nodes, selectedNodeId, highlightedPath)
    /\ lastOp = Op("mount", NULL, 0, TRUE)
    /\ walk = NoWalk
    /\ StreamingMounted

WalkFrame ==
    UNCHANGED <<isTauri, treeId, nodes, leafNodes, isLoading, error, selectedNodeId,
                highlightedPath, pathRequestIdRef, pathRequests, nodeLoads,
                lastVisitedChild, layout, lastOp, streamVars>>

\* const path = []; let current = find(nodeId)
WalkStart(nodeId) ==
    /\ walk.pc = "idle"
    /\ walk' = [pc |-> "loop", nodeId |-> nodeId, current |-> FindNode(nodes, nodeId),
                path |-> << >>]
    /\ WalkFrame

\* variant: a parent_id without a node leaves current where it is
WalkStepHoldingOnDangling ==
    /\ walk.pc = "loop"
    /\ walk.current # NoNode
    /\ walk' = [walk EXCEPT
                  !.path = << walk.current >> \o walk.path,
                  !.current = IF walk.current.parent_id = NULL THEN NoNode
                              ELSE IF FindNode(nodes, walk.current.parent_id) = NoNode
                              THEN walk.current
                              ELSE FindNode(nodes, walk.current.parent_id)]
    /\ WalkFrame

\* one iteration of while (current): path.unshift(current); current = its parent,
\* or undefined
WalkStep ==
    /\ walk.pc = "loop"
    /\ walk.current # NoNode
    /\ walk' = [walk EXCEPT
                  !.path = << walk.current >> \o walk.path,
                  !.current = IF walk.current.parent_id # NULL
                              THEN FindNode(nodes, walk.current.parent_id)
                              ELSE NoNode]
    /\ WalkFrame

\* current is undefined: return path
WalkReturn ==
    /\ walk.pc = "loop"
    /\ walk.current = NoNode
    /\ walk' = [walk EXCEPT !.pc = "done"]
    /\ WalkFrame

WalkNext ==
    \/ \E nodeId \in WalkTargets : WalkStart(nodeId)
    \/ WalkStep
    \/ WalkReturn

WalkSpec == WalkInit /\ [][WalkNext]_vars /\ WF_vars(WalkStep) /\ WF_vars(WalkReturn)

(***************************************************************************)
(* useStreamingResponse: the mock stream. A window timer runs the          *)
(* streamChunk closure of one startStreaming call; timers fire in any      *)
(* order, a cleared timer never fires, and setTimeout ids are positive and *)
(* never reused.                                                           *)
(***************************************************************************)
\* the number of characters of MOCK_RESPONSE the model keeps
ResponseLen == 6

\* the number of startStreaming calls of one behaviour
MaxStreams == 2

MockResponseText == << "I", "'", "l", "l", " ", "h", "e", "l", "p", " " >>

MOCK_RESPONSE ==
    [ k \in 1..ResponseLen |-> MockResponseText[((k - 1) % Len(MockResponseText)) + 1] ]

\* Math.floor(Math.random() * 5) + 1
ChunkSizes == 1..5

\* variant: Math.floor(Math.random() * 5)
ChunkSizesFromZero == 0..4

Min(a, b) == IF a < b THEN a ELSE b

\* MOCK_RESPONSE.slice(0, nextIndex)
Slice(nextIndex) == SubSeq(MOCK_RESPONSE, 1, nextIndex)

\* if (timeoutRef.current) clearTimeout(timeoutRef.current)
ClearTimeout(pending, id) ==
    IF id # NoTimer THEN { t \in pending : t.id # id } ELSE pending

\* window.setTimeout(streamChunk, delay) of the closure of one call
SetTimeout(pending, call, index) ==
    pending \cup { [id |-> timerSeq + 1, call |-> call, index |-> index] }

StreamFrame ==
    UNCHANGED <<isTauri, treeId, nodes, leafNodes, isLoading, error, selectedNodeId,
                highlightedPath, pathRequestIdRef, pathRequests, nodeLoads,
                lastVisitedChild, layout, walk>>

\* variant: stopStreaming leaves the timer running
stopStreamingKeepingTimer ==
    /\ streamingRef' = FALSE
    /\ state' = [state EXCEPT !.isStreaming = FALSE]
    /\ lastOp' = Op("stopStreaming", NULL, 0, TRUE)
    /\ UNCHANGED <<timers, timeoutRef, timerSeq, streamCalls>>
    /\ StreamFrame

stopStreaming ==
    /\ streamingRef' = FALSE
    /\ timers' = ClearTimeout(timers, timeoutRef)
    /\ timeoutRef' = NoTimer
    /\ state' = [state EXCEPT !.isStreaming = FALSE]
    /\ lastOp' = Op("stopStreaming", NULL, 0, TRUE)
    /\ UNCHANGED <<timerSeq, streamCalls>>
    /\ StreamFrame

\* stopStreaming(), then the state set anew
reset ==
    /\ streamingRef' = FALSE
    /\ timers' = ClearTimeout(timers, timeoutRef)
    /\ timeoutRef' = NoTimer
    /\ state' = [isStreaming |-> FALSE, content |-> << >>, error |-> NULL]
    /\ lastOp' = Op("reset", NULL, 0, TRUE)
    /\ UNCHANGED <<timerSeq, streamCalls>>
    /\ StreamFrame

\* variant: startStreaming without its reset()
startStreamingWithoutReset ==
    /\ streamCalls < MaxStreams
    /\ streamCalls' = streamCalls + 1
    /\ streamingRef' = TRUE
    /\ state' = [isStreaming |-> TRUE, content |-> << >>, error |-> NULL]
    /\ timers' = SetTimeout(timers, streamCalls + 1, 0)
    /\ timerSeq' = timerSeq + 1
    /\ timeoutRef' = timerSeq + 1
    /\ lastOp' = Op("startStreaming", IF state.isStreaming THEN "restart" ELSE "start",
                    streamCalls + 1, TRUE)
    /\ StreamFrame

\* reset(), then the first timer of a new closure with index 0; arg records as
\* history whether a stream was in progress
startStreaming ==
    /\ streamCalls < MaxStreams
    /\ streamCalls' = streamCalls + 1
    /\ streamingRef' = TRUE
    /\ state' = [isStreaming |-> TRUE, content |-> << >>, error |-> NULL]
    /\ timers' = SetTimeout(ClearTimeout(timers, timeoutRef), streamCalls + 1, 0)
    /\ timerSeq' = timerSeq + 1
    /\ timeoutRef' = timerSeq + 1
    /\ lastOp' = Op("startStreaming", IF state.isStreaming THEN "restart" ELSE "start",
                    streamCalls + 1, TRUE)
    /\ StreamFrame

\* the body of streamChunk for a timer t that fires, chunkSize drawn from sizes
StreamChunkBody(t, sizes) ==
    /\ t \in timers
    /\ IF ~streamingRef
       THEN /\ timers' = timers \ {t}
            /\ lastOp' = Op("streamChunk", "returned", t.call, FALSE)
            /\ UNCHANGED <<state, streamingRef, timeoutRef, timerSeq>>
       ELSE IF t.index < Len(MOCK_RESPONSE)
       THEN \E chunkSize \in sizes :
              LET nextIndex == Min(t.index + chunkSize, Len(MOCK_RESPONSE))
              IN  /\ state' = [state EXCEPT !.content = Slice(nextIndex)]
                  /\ timers' = SetTimeout(timers \ {t}, t.call, nextIndex)
                  /\ timerSeq' = timerSeq + 1
                  /\ timeoutRef' = timerSeq + 1
                  /\ lastOp' = Op("streamChunk", "chunk", t.call, TRUE)
                  /\ UNCHANGED streamingRef
       ELSE /\ streamingRef' = FALSE
            /\ state' = [state EXCEPT !.isStreaming = FALSE]
            /\ timers' = timers \ {t}
            /\ lastOp' = Op("streamChunk", "complete", t.call, TRUE)
            /\ UNCHANGED <<timeoutRef, timerSeq>>
    /\ UNCHANGED streamCalls
    /\ StreamFrame

\* variant: a chunk may be empty
streamChunkFromZero(t) == StreamChunkBody(t, ChunkSizesFromZero)

\* a timer fires and runs streamChunk
streamChunk(t) == StreamChunkBody(t, ChunkSizes)

StreamInit == Init

TimerFires == \E t \in timers : streamChunk(t)

StreamNext ==
    \/ startStreaming
    \/ stopStreaming
    \/ reset
    \/ TimerFires

\* a timer that is set and not cleared fires
StreamSpec == StreamInit /\ [][StreamNext]_vars /\ WF_vars(TimerFires)

(***************************************************************************)
(* PathButtons under TreeCanvasInner: one button per leaf of leafNodes and, *)
(* while a path is highlighted, the Clear button. onPathSelect is           *)
(* highlightPathToNode and onClearPath is clearHighlightedPath.             *)
(***************************************************************************)
\* isPathSelected
isPathSelected == (~highlightedPath.isNull) /\ Len(highlightedPath.ids) > 0

\* selectedLeafId
selectedLeafId ==
    IF isPathSelected THEN highlightedPath.ids[Len(highlightedPath.ids)] ELSE NULL

\* variant: a leaf's button starts a lookup whether or not the leaf is selected
LeafButtonClickAlwaysSelecting(leafId) ==
    /\ CanvasShown
    /\ leafId \in IdsOf(leafNodes)
    /\ highlightPathToNode(leafId)

\* onClick of the button of one leaf
LeafButtonClick(leafId) ==
    /\ CanvasShown
    /\ leafId \in IdsOf(leafNodes)
    /\ IF leafId = selectedLeafId
       THEN clearHighlightedPath
       ELSE highlightPathToNode(leafId)

\* onClick of the Clear button
ClearButtonClick ==
    /\ CanvasShown
    /\ Len(leafNodes) > 0
    /\ isPathSelected
    /\ clearHighlightedPath

LeafIds == IdsOf(DbLeaves("t1")) \cup IdsOf(DbLeaves("t2")) \cup IdsOf(getMockLeaves)

ButtonInit == Init

ButtonNext ==
    \/ \E leafId \in LeafIds : LeafButtonClick(leafId)
    \/ ClearButtonClick
    \/ \E r \in pathRequests : PathResolved(r)
    \/ \E r \in pathRequests : PathRejected(r)
    \/ \E tid \in TreeIdInputs : setTreeId(tid)
    \/ \E tid \in TreeIds : NodeLoadResolved(tid)
    \/ \E nodeId \in IdsOf(layout.nodes) : onNodeClick(nodeId)

ButtonSpec == ButtonInit /\ [][ButtonNext]_vars

(***************************************************************************)
(* useArrowKeyNavigation on its own: layoutNodes is an argument of the     *)
(* hook, here any placement of three nodes on a grid whose rows lie closer *)
(* together than the tolerance of getNodesAtSameLevel as well as a whole   *)
(* rank apart. The hook reads ids and positions of layoutNodes only, and   *)
(* the positions stay as they are while the selection moves.               *)
(***************************************************************************)
GridXs == {0, NODE_WIDTH + HORIZONTAL_SPACING, 2 * (NODE_WIDTH + HORIZONTAL_SPACING)}

GridYs == {0, THRESHOLD - 2, 2 * (THRESHOLD - 2), NODE_HEIGHT + VERTICAL_SPACING}

GridNodes == << Node("a", NULL), Node("b", NULL), Node("c", "a") >>

GridLayouts ==
    { [ nodes |-> [ k \in 1..Len(GridNodes) |->
                      [ id |-> GridNodes[k].id,
                        position |-> [ x |-> xs[k], y |-> ys[k] ] ] ],
        edges |-> << >> ] :
      xs \in [1..Len(GridNodes) -> GridXs], ys \in [1..Len(GridNodes) -> GridYs] }

HookInit ==
    /\ isTauri = TRUE
    /\ treeId = "t1"
    /\ nodes = GridNodes
    /\ leafNodes = LeavesOf(nodes)
    /\ isLoading = FALSE
    /\ error = NULL
    /\ selectedNodeId = NULL
    /\ highlightedPath = NoPath
    /\ pathRequestIdRef = 0
    /\ pathRequests = {}
    /\ nodeLoads = {}
    /\ lastVisitedChild = << >>
    /\ layout \in GridLayouts
    /\ lastOp = Op("mount", NULL, 0, TRUE)
    /\ walk = NoWalk
    /\ StreamingMounted

HookFrame ==
    UNCHANGED <<isTauri, treeId, nodes, leafNodes, isLoading, error, highlightedPath,
                pathRequestIdRef, pathRequests, nodeLoads, layout, walk, streamVars>>

\* the selectedNodeId prop changes to a node of the collection, and the effect
\* on [selectedNodeId, nodeMap] runs
setSelectedNodeId(nodeId) ==
    /\ HookFrame
    /\ selectedNodeId' = nodeId
    /\ lastVisitedChild' = lastVisitedChildEffect(selectedNodeId', nodes', lastVisitedChild)
    /\ lastOp' = Op("setSelectedNodeId", NULL, 0, TRUE)

\* handleKeyDown of the hook, with the re-render of the hook that follows
\* setSelectedNodeId(targetNodeId)
handleKeyDown(key, activeElement) ==
    \E targetNodeId \in { handleKeyDownTarget(key, activeElement, layout.nodes) } :
        /\ HookFrame
        /\ selectedNodeId' = IF targetNodeId # NULL THEN targetNodeId ELSE selectedNodeId
        /\ lastVisitedChild' = lastVisitedChildEffect(selectedNodeId', nodes', lastVisitedChild)
        /\ lastOp' = [ Op("keydown", IF targetNodeId # NULL THEN key ELSE NULL,
                          0, targetNodeId # NULL)
                        EXCEPT !.from = IF targetNodeId # NULL THEN selectedNodeId ELSE NULL ]

HookNext ==
    \/ \E nodeId \in IdsOf(nodes) : setSelectedNodeId(nodeId)
    \/ \E key \in ArrowKeys : handleKeyDown(key, "body")

HookSpec == HookInit /\ [][HookNext]_vars

(***************************************************************************)
(* Properties of the keyboard navigation (C11, C15 under Spec; C12, C13,   *)
(* C14, C16 under NavSpec).                                                *)
(***************************************************************************)
\* C11: with selectedNodeId null a keydown event (the four arrow keys among
\* them) leaves selectedNodeId null and lastVisitedChild unchanged, and its
\* default action is not suppressed.
C11_NoSelectionNoMove ==
    [][ (selectedNodeId = NULL /\ lastOp'.op = "keydown")
          => /\ selectedNodeId' = NULL
             /\ lastVisitedChild' = lastVisitedChild
             /\ ~lastOp'.ok ]_vars

\* a key was pressed with nodes shown, nothing selected (neither listener
\* acted) and entries in lastVisitedChild
C11_Witness ==
    /\ lastOp = Op("keydown", NULL, 0, FALSE)
    /\ selectedNodeId = NULL
    /\ Len(nodes) > 0
    /\ DOMAIN lastVisitedChild # {}


\* the node of the collection that is selected, NoNode when there is none
CurrentNode ==
    IF \E k \in 1..Len(nodes) : nodes[k].id = selectedNodeId
    THEN nodes[CHOOSE k \in 1..Len(nodes) : nodes[k].id = selectedNodeId]
    ELSE NoNode

\* C12: ArrowUp with a node of the collection selected selects that node's
\* parent_id when it has one, and leaves the selection alone when it has none.
C12_UpSelectsParent ==
    [][ (CurrentNode # NoNode /\ KeyDown("ArrowUp", "body"))
          => selectedNodeId' = IF CurrentNode.parent_id # NULL
                               THEN CurrentNode.parent_id
                               ELSE selectedNodeId ]_vars

\* ArrowUp has moved the selection to a node of the collection with a child
C12_Witness ==
    /\ lastOp.op = "keydown"
    /\ lastOp.arg = "ArrowUp"
    /\ CurrentNode # NoNode
    /\ \E k \in 1..Len(nodes) : nodes[k].parent_id = selectedNodeId


\* the x coordinate the layout gives to a node
LayoutX(i) ==
    LET k == CHOOSE j \in 1..Len(layout.nodes) : layout.nodes[j].id = i
    IN  layout.nodes[k].position.x

\* the ids of the nodes whose parent_id is p
ChildIds(p) == { nodes[k].id : k \in { j \in 1..Len(nodes) : nodes[j].parent_id = p } }

\* the member of a non-empty set of laid out nodes with the least x
Leftmost(S) == CHOOSE c \in S : \A d \in S : LayoutX(c) <= LayoutX(d)

\* C13: ArrowDown on a node with children selects lastVisitedChild of that node
\* when it is still one of the children and the leftmost child otherwise;
\* ArrowDown on a node without children leaves the selection alone.
C13_DownSelectsRememberedOrLeftmost ==
    [][ (CurrentNode # NoNode /\ KeyDown("ArrowDown", "body"))
          => LET C == ChildIds(selectedNodeId)
                 remembered == MapGet(lastVisitedChild, selectedNodeId)
             IN  selectedNodeId' = IF C = {} THEN selectedNodeId
                                   ELSE IF remembered \in C THEN remembered
                                   ELSE Leftmost(C) ]_vars

\* ArrowDown has returned to a remembered child that is not the leftmost one
C13_Witness ==
    /\ lastOp.op = "keydown"
    /\ lastOp.arg = "ArrowDown"
    /\ CurrentNode # NoNode
    /\ CurrentNode.parent_id # NULL
    /\ selectedNodeId # Leftmost(ChildIds(CurrentNode.parent_id))


\* the y coordinate the layout gives to a node
LayoutY(i) ==
    LET k == CHOOSE j \in 1..Len(layout.nodes) : layout.nodes[j].id = i
    IN  layout.nodes[k].position.y

\* the ids of the nodes whose layout y is within the tolerance of the selected
\* node's y
LevelIds ==
    { nodes[k].id : k \in { j \in 1..Len(nodes) :
          Abs(LayoutY(nodes[j].id) - LayoutY(selectedNodeId)) < THRESHOLD } }

\* the members of the level strictly left, and strictly right, of the selected node
LeftOf == { i \in LevelIds : LayoutX(i) < LayoutX(selectedNodeId) }
RightOf == { i \in LevelIds : LayoutX(i) > LayoutX(selectedNodeId) }

\* C14: ArrowLeft selects the node of the selected node's level that comes
\* immediately before it in ascending x, ArrowRight the one immediately after
\* it; at either end of the level the selection stays where it is.
C14_LeftRightWithinLevel ==
    [][ /\ (CurrentNode # NoNode /\ KeyDown("ArrowLeft", "body"))
           => selectedNodeId' =
                 IF LeftOf = {} THEN selectedNodeId
                 ELSE CHOOSE i \in LeftOf : \A j \in LeftOf : LayoutX(j) <= LayoutX(i)
        /\ (CurrentNode # NoNode /\ KeyDown("ArrowRight", "body"))
           => selectedNodeId' =
                 IF RightOf = {} THEN selectedNodeId
                 ELSE CHOOSE i \in RightOf : \A j \in RightOf : LayoutX(i) <= LayoutX(j)
      ]_vars

\* ArrowLeft has moved the selection inside a level of three nodes, onto the
\* middle one
C14_Witness ==
    /\ lastOp.op = "keydown"
    /\ lastOp.arg = "ArrowLeft"
    /\ CurrentNode # NoNode
    /\ LeftOf # {}
    /\ RightOf # {}


\* C15: whenever selectedNodeId changes, by a key or by a click, to a node of
\* the collection that has a parent_id, lastVisitedChild maps that parent_id to
\* the node by the end of the step, hence before any later key is handled.
C15_SelectionRecordsVisit ==
    [][ (selectedNodeId' # selectedNodeId /\ CurrentNode' # NoNode
            /\ CurrentNode'.parent_id # NULL)
          => MapGet(lastVisitedChild', CurrentNode'.parent_id) = selectedNodeId' ]_vars

\* an arrow key has moved the selection to a node with a parent, replacing the
\* sibling that was recorded for that parent before
C15_Witness ==
    /\ lastOp.op = "keydown"
    /\ lastOp.arg \in {"ArrowLeft", "ArrowRight"}
    /\ CurrentNode # NoNode
    /\ CurrentNode.parent_id # NULL
    /\ MapGet(lastVisitedChild, CurrentNode.parent_id) = selectedNodeId


\* C16: for a node c whose parent p is in the collection, ArrowUp from c
\* followed at once by ArrowDown selects c again, wherever c stands among the
\* children of p.
C16_UpThenDownReturns ==
    [][ (lastOp.op = "keydown" /\ lastOp.arg = "ArrowUp" /\ CurrentNode # NoNode
            /\ KeyDown("ArrowDown", "body"))
          => selectedNodeId' = lastOp.from ]_vars

\* ArrowUp has moved the selection from a child that is not the leftmost one to
\* its parent, a node of the collection, where ArrowDown is handled next
C16_Witness ==
    /\ lastOp.op = "keydown"
    /\ lastOp.arg = "ArrowUp"
    /\ CurrentNode # NoNode
    /\ lastOp.from \in ChildIds(selectedNodeId)
    /\ lastOp.from # Leftmost(ChildIds(selectedNodeId))


(***************************************************************************)
(* Properties of the keydown listeners as a whole (C17 under Spec, C18     *)
(* under KeySpec).                                                         *)
(***************************************************************************)
\* C17: while focus is inside an input, a textarea or a contenteditable element
\* no keydown event changes selectedNodeId or highlightedPath, and none has its
\* default action suppressed.
C17_TextEditingIgnoresKeys ==
    [][ \A key \in Keys : \A activeElement \in { e \in ActiveElements : IsTextEditing(e) } :
          (lastOp'.op = "keydown" /\ KeyDown(key, activeElement))
            => /\ selectedNodeId' = selectedNodeId
               /\ highlightedPath' = highlightedPath
               /\ ~lastOp'.ok ]_vars


\* C18: a keydown event has its default action suppressed exactly when its key
\* is one of the four arrow keys and the event changes selectedNodeId; an
\* arrow key that moves nothing and every other key are passed through.
C18_PreventDefaultIffMove ==
    [][ \A key \in Keys : \A activeElement \in ActiveElements :
          (lastOp'.op = "keydown" /\ KeyDown(key, activeElement))
            => (lastOp'.ok <=> (key \in ArrowKeys /\ selectedNodeId' # selectedNodeId)) ]_vars

\* ArrowRight has moved the selection and the default action was suppressed
C18_Witness ==
    /\ lastOp.op = "keydown"
    /\ lastOp.arg = "ArrowRight"
    /\ lastOp.ok
    /\ lastOp.from # selectedNodeId


(***************************************************************************)
(* Properties of the highlighted path (C19 under LayoutSpec, C20 under     *)
(* Spec).                                                                  *)
(***************************************************************************)
\* an id is the id of a node of the collection
InCollection(i) == i \in IdsOf(nodes)

\* C19: highlightedPathNodes holds nodes of the current collection only; their
\* ids are the ids of highlightedPath that occur in the collection, in the
\* order of highlightedPath, ids without a node being left out; it is empty
\* when highlightedPath is null.
C19_PathNodesFollowPath ==
    LET pathNodes == highlightedPathNodes(nodes, highlightedPath)
    IN  /\ \A k \in 1..Len(pathNodes) : \E j \in 1..Len(nodes) : nodes[j] = pathNodes[k]
        /\ MapIds(pathNodes) = SelectSeq(highlightedPath.ids, InCollection)
        /\ highlightedPath.isNull => pathNodes = << >>

\* a path was set that names an id missing from the collection next to the id
\* of a node
C19_Witness ==
    /\ lastOp.op = "useTreeLayout"
    /\ ~highlightedPath.isNull
    /\ \E k \in 1..Len(highlightedPath.ids) : ~InCollection(highlightedPath.ids[k])
    /\ Len(highlightedPathNodes(nodes, highlightedPath)) > 0


\* the parent_id of the node of the collection with this id
ParentIdOf(i) == nodes[CHOOSE k \in 1..Len(nodes) : nodes[k].id = i].parent_id

\* ids lead from a root of the collection down to n, each the parent of the next
IsRootChainTo(ids, n) ==
    /\ Len(ids) > 0
    /\ \A k \in 1..Len(ids) : InCollection(ids[k])
    /\ ~InCollection(ParentIdOf(ids[1]))
    /\ \A k \in 2..Len(ids) : ParentIdOf(ids[k]) = ids[k - 1]
    /\ ids[Len(ids)] = n

\* C20: when the local walk resolves the path of a node n of the collection
\* and the result is written, highlightedPath is the id sequence from a root
\* down to n: its first entry has no parent in the collection, every later
\* entry's parent_id is the entry before it, and its last entry is n.
C20_ResolvedPathIsRootChain ==
    [][ \A r \in pathRequests :
          (lastOp'.op = "pathResolved" /\ ~isTauri /\ InCollection(r.nodeId)
              /\ IsLatest(r.requestId) /\ PathResolved(r))
            => /\ ~highlightedPath'.isNull
               /\ IsRootChainTo(highlightedPath'.ids, r.nodeId) ]_vars

\* the local walk has resolved the path of a grandchild and the three ids were
\* written
C20_Witness ==
    /\ ~isTauri
    /\ lastOp.op = "pathResolved"
    /\ lastOp.arg = "latest"
    /\ ~highlightedPath.isNull
    /\ Len(highlightedPath.ids) = 3
    /\ IsRootChainTo(highlightedPath.ids, highlightedPath.ids[3])

(***************************************************************************)
(* Properties of the layout and of the collection's edge cases (C21 under  *)
(* LeftoverSpec; C22, C23, C25, C26 under LayoutSpec).                     *)
(***************************************************************************)
\* C21: with an empty node collection the layout has no nodes and no edges,
\* highlightedPathNodes is empty, and no arrow key changes selectedNodeId or
\* has its default action suppressed, whatever selection and path are held.
C21_EmptyCollectionDegrades ==
    [][ Len(nodes) = 0
          => /\ layout = [ nodes |-> << >>, edges |-> << >> ]
             /\ highlightedPathNodes(nodes, highlightedPath) = << >>
             /\ \A key \in ArrowKeys :
                  KeyDown(key, "body")
                    => /\ selectedNodeId' = selectedNodeId
                       /\ ~lastOp'.ok
                       /\ layout' = [ nodes |-> << >>, edges |-> << >> ]
                       /\ highlightedPathNodes(nodes', highlightedPath') = << >> ]_vars

\* an arrow key was handled with an empty collection while a selection and a
\* path were still held
C21_Witness ==
    /\ Len(nodes) = 0
    /\ selectedNodeId # NULL
    /\ ~highlightedPath.isNull
    /\ Len(highlightedPath.ids) > 0
    /\ lastOp = Op("keydown", NULL, 0, FALSE)

C24_VisitsNeverPruned ==
    [][ /\ DOMAIN lastVisitedChild \subseteq DOMAIN lastVisitedChild'
        /\ lastVisitedChild' # lastVisitedChild => selectedNodeId' # selectedNodeId ]_vars

\* the tree was unloaded, the selection reset and the collection emptied, and
\* the entries recorded before are still held
C24_Witness ==
    /\ lastOp.op = "setTreeId"
    /\ Len(nodes) = 0
    /\ selectedNodeId = NULL
    /\ DOMAIN lastVisitedChild # {}

\* the positions in the collection of the nodes whose parent_id is the id of a
\* node of the collection
WithPresentParent ==
    { k \in 1..Len(nodes) : \E j \in 1..Len(nodes) : nodes[j].id = nodes[k].parent_id }

\* C25: the layout holds one layout node per node of the collection, with the
\* same ids, and one edge per node whose parent_id is in the collection, with
\* id parent_id-id, source parent_id and target id; it holds no other edge.
C25_OneNodeOneEdgePerInput ==
    /\ MapIds(layout.nodes) = MapIds(nodes)
    /\ Len(layout.edges) = Cardinality(WithPresentParent)
    /\ \A k \in WithPresentParent :
          \E e \in 1..Len(layout.edges) :
             /\ layout.edges[e].id = nodes[k].parent_id \o "-" \o nodes[k].id
             /\ layout.edges[e].source = nodes[k].parent_id
             /\ layout.edges[e].target = nodes[k].id
    /\ \A e \in 1..Len(layout.edges) :
          \E k \in WithPresentParent :
             /\ layout.edges[e].source = nodes[k].parent_id
             /\ layout.edges[e].target = nodes[k].id

\* a recomputation for a chain of three nodes: three layout nodes, two edges
C25_Witness ==
    /\ lastOp.op = "useTreeLayout"
    /\ Len(layout.nodes) = 3
    /\ Len(layout.edges) = 2
    /\ layout.edges[1].source # layout.edges[2].source

\* the ids that occur in highlightedPath, none when it is null
PathMembers ==
    IF highlightedPath.isNull THEN {}
    ELSE { highlightedPath.ids[k] : k \in 1..Len(highlightedPath.ids) }

\* C26: a layout edge has the highlight stroke and width exactly when its
\* source and its target are both members of highlightedPath, in whatever
\* order and position; with highlightedPath null no edge is highlighted.
C26_EdgeHighlightIffBothEnds ==
    /\ \A k \in 1..Len(layout.edges) :
          IF {layout.edges[k].source, layout.edges[k].target} \subseteq PathMembers
          THEN layout.edges[k].stroke = AMBER /\ layout.edges[k].strokeWidth = 2
          ELSE layout.edges[k].stroke = GRAY /\ layout.edges[k].strokeWidth = 1
    /\ highlightedPath.isNull
         => \A k \in 1..Len(layout.edges) : layout.edges[k].stroke = GRAY

\* a path that names the child before its parent: their edge is highlighted,
\* an edge with one end on the path is not
C26_Witness ==
    /\ lastOp.op = "useTreeLayout"
    /\ Len(layout.edges) = 2
    /\ \E k \in 1..2 :
          /\ layout.edges[k].stroke = AMBER
          /\ highlightedPath.ids = << layout.edges[k].target, layout.edges[k].source >>
    /\ \E k \in 1..2 : layout.edges[k].stroke = GRAY

\* the step is a call of clearHighlightedPath: direct, from the pane click or
\* from the Escape listener
ClearCalled ==
    \/ lastOp'.op \in {"clearHighlightedPath", "onPaneClick"}
    \/ lastOp'.op = "keydown" /\ lastOp'.arg = "escape"

\* C27: pathRequestIdRef never decreases; every call of highlightPathToNode
\* and every call of clearHighlightedPath increases it by exactly one, and the
\* tag of a new highlightPathToNode call is the new counter, greater than the
\* tag of every call before it, so that no two calls carry the same tag.
C27_CounterStrictlyIncreases ==
    [][ /\ pathRequestIdRef' >= pathRequestIdRef
        /\ \A r \in pathRequests : r.requestId <= pathRequestIdRef
        /\ ClearCalled => pathRequestIdRef' = pathRequestIdRef + 1
        /\ lastOp'.op = "highlightPathToNode"
             => /\ pathRequestIdRef' = pathRequestIdRef + 1
                /\ \E r \in pathRequests' \ pathRequests : r.requestId = pathRequestIdRef'
                /\ \A r \in pathRequests' \ pathRequests : r.requestId = pathRequestIdRef' ]_vars

\* a second call of highlightPathToNode was tagged 2 while the first, tagged
\* 1, is still in flight
C27_Witness ==
    /\ lastOp.op = "highlightPathToNode"
    /\ pathRequestIdRef = 2
    /\ \E r \in pathRequests : r.requestId = 1
    /\ \E r \in pathRequests : r.requestId = 2

(***************************************************************************)
(* Properties of the local walk (C28 under WalkSpec).                      *)
(***************************************************************************)
\* C28: on every forest-shaped collection a call of the local walk, for an id
\* of the collection or not, returns; at no point has it visited more nodes
\* than the collection holds, a dangling parent_id ending the walk like a
\* missing one.
C28_WalkTerminates ==
    /\ [](Len(walk.path) <= Len(nodes))
    /\ (walk.pc = "loop") ~> (walk.pc = "done")

\* the walk has returned a chain of three nodes whose first node names a parent
\* the collection does not hold
C28_Witness ==
    /\ walk.pc = "done"
    /\ Len(walk.path) = 3
    /\ walk.path[1].parent_id # NULL
    /\ walk.path[3].id = walk.nodeId

(***************************************************************************)
(* Properties that span navigation and loading (C29 under NavSpec, C30     *)
(* under Spec).                                                            *)
(***************************************************************************)
\* C29: an arrow key pressed while the selected id is the id of a node of the
\* collection leaves selectedNodeId the id of a node of the collection, also
\* on collections with nodes whose parent_id names no node.
C29_NavigationStaysInCollection ==
    [][ (CurrentNode # NoNode /\ lastOp'.op = "keydown")
          => InCollection(selectedNodeId') ]_vars

\* C30: once every node load started for the trees selected so far has
\* completed, none of them rejected, nodes and leafNodes are those loaded for
\* the tree that treeId names: a load for an earlier tree that completes late
\* does not overwrite them.
C30_LatestTreeNodesWin ==
    (isTauri /\ treeId # NULL /\ nodeLoads = {} /\ error = NULL)
      => (nodes = DbNodes(treeId) /\ leafNodes = DbLeaves(treeId))

(***************************************************************************)
(* Properties of the path lookups and of the canvas handlers (C31, C34     *)
(* under Spec).                                                            *)
(***************************************************************************)
\* C31: a highlightPathToNode call stays invalidated by a newer call whose
\* lookup fails: the failure writes nothing and leaves the older calls stale,
\* and an older call that completes right after the failure writes nothing
\* either, so highlightedPath keeps the value it had before both completed.
C31_FailedNewerStillInvalidates ==
    [][ \A r \in pathRequests :
          /\ (lastOp'.op = "pathRejected" /\ PathRejected(r))
               => /\ highlightedPath' = highlightedPath
                  /\ \A o \in pathRequests' :
                        o.requestId < r.requestId => o.requestId < pathRequestIdRef'
          /\ (lastOp.op = "pathRejected" /\ r.requestId < lastOp.req /\ Completes(r))
               => highlightedPath' = highlightedPath ]_vars

\* two calls were issued, the lookup of the second was rejected and the first
\* was fulfilled after it: nothing is highlighted
C31_Witness ==
    /\ isTauri
    /\ lastOp = Op("pathResolved", "superseded", 1, TRUE)
    /\ pathRequestIdRef = 2
    /\ pathRequests = {}
    /\ highlightedPath = NoPath

(***************************************************************************)
(* Round trips of the navigation (C32 under HookSpec, C33 under NavSpec).  *)
(***************************************************************************)
\* two layout nodes are in the same row as getNodesAtSameLevel sees it
SameRow(m, n) == Abs(m.position.y - n.position.y) < THRESHOLD

\* being in the same row is transitive over the layout nodes: the rows are
\* apart by the tolerance or more
RowsApart ==
    \A i \in 1..Len(layout.nodes) : \A j \in 1..Len(layout.nodes) :
        \A k \in 1..Len(layout.nodes) :
            (SameRow(layout.nodes[i], layout.nodes[j]) /\ SameRow(layout.nodes[j], layout.nodes[k]))
              => SameRow(layout.nodes[i], layout.nodes[k])

\* ArrowRight right after an ArrowLeft move, and ArrowLeft right after an
\* ArrowRight move, select the node the first key moved away from
LeftRightReturns ==
    /\ (lastOp.op = "keydown" /\ lastOp.arg = "ArrowLeft" /\ handleKeyDown("ArrowRight", "body"))
         => selectedNodeId' = lastOp.from
    /\ (lastOp.op = "keydown" /\ lastOp.arg = "ArrowRight" /\ handleKeyDown("ArrowLeft", "body"))
         => selectedNodeId' = lastOp.from

\* C32 (as amended): when the rows of the layout are apart by the tolerance
\* or more, so that the same-level list of a node's neighbour holds the same
\* nodes as its own, a successful Left followed by Right returns the selection
\* to the starting node, and so does a successful Right followed by Left.
C32_LeftRightRoundTripOnRows ==
    [][ RowsApart => LeftRightReturns ]_vars

\* C32 (as stated): for any layout positions a successful Left followed by
\* Right, and a successful Right followed by Left, returns the selection to
\* the starting node.
C32_LeftRightRoundTrip ==
    [][ LeftRightReturns ]_vars

\* ArrowLeft has moved the selection from the last to the middle node of a row
\* of three whose nodes differ in y by less than the tolerance
C32_Witness ==
    /\ RowsApart
    /\ lastOp.op = "keydown"
    /\ lastOp.arg = "ArrowLeft"
    /\ \A k \in 1..Len(layout.nodes) : SameRow(layout.nodes[k], layout.nodes[1])
    /\ \E k \in 1..Len(layout.nodes) : layout.nodes[k].position.y # layout.nodes[1].position.y
    /\ \E k \in 1..Len(layout.nodes) :
          layout.nodes[k].position.x < PositionOf(layout.nodes, selectedNodeId).x

\* C33: the node ArrowDown selects has the node it was pressed on as its
\* parent_id, and ArrowUp right after a successful ArrowDown selects the node
\* ArrowDown was pressed on.
C33_DownThenUpReturns ==
    [][ /\ (KeyDown("ArrowDown", "body") /\ lastOp'.arg = "ArrowDown")
             => /\ InCollection(selectedNodeId')
                /\ ParentIdOf(selectedNodeId') = selectedNodeId
        /\ (lastOp.op = "keydown" /\ lastOp.arg = "ArrowDown" /\ KeyDown("ArrowUp", "body"))
             => /\ selectedNodeId' = lastOp.from
                /\ lastOp'.arg = "ArrowUp" ]_vars

\* ArrowDown has moved the selection from a parent to the child remembered for
\* it, not the leftmost one, where ArrowUp is handled next
C33_Witness ==
    /\ lastOp.op = "keydown"
    /\ lastOp.arg = "ArrowDown"
    /\ selectedNodeId \in ChildIds(lastOp.from)
    /\ selectedNodeId # Leftmost(ChildIds(lastOp.from))

\* C34: a pane click, and Escape pressed while a node is selected, each leave
\* selectedNodeId null and highlightedPath null with every path lookup still
\* in flight invalidated; Escape pressed while no node is selected changes
\* neither the selection nor the highlighted path, and invalidates nothing,
\* even when a path is highlighted.
C34_PaneClickAndEscapeClear ==
    [][ /\ (lastOp'.op = "onPaneClick" \/ (lastOp'.op = "keydown" /\ lastOp'.arg = "escape"))
             => /\ selectedNodeId' = NULL
                /\ highlightedPath' = NoPath
                /\ \A r \in pathRequests' : ~IsLatest(r.requestId)'
        /\ \A activeElement \in ActiveElements :
             (selectedNodeId = NULL /\ KeyDown("Escape", activeElement))
                => UNCHANGED <<selectedNodeId, highlightedPath, pathRequestIdRef, pathRequests>>
        /\ \A activeElement \in ActiveElements :
             (selectedNodeId # NULL /\ pathRequestIdRef < MaxRequests
                  /\ KeyDown("Escape", activeElement))
                => lastOp'.arg = "escape" ]_vars

\* a pane click has invalidated a lookup that was in flight
C34_Witness ==
    /\ lastOp.op = "onPaneClick"
    /\ selectedNodeId = NULL
    /\ highlightedPath = NoPath
    /\ \E r \in pathRequests : r.cleared /\ r.requestId = pathRequestIdRef - 1

(***************************************************************************)
(* Properties of the path buttons (C35 under ButtonSpec).                  *)
(***************************************************************************)
\* C35: a click on the button of the leaf that is the last id of a non-empty
\* highlightedPath clears the path through clearHighlightedPath and starts no
\* lookup; a click on the button of any other leaf starts a lookup for that
\* leaf through highlightPathToNode and leaves highlightedPath as it is until
\* a result arrives.
C35_LeafButtonToggles ==
    [][ \A leafId \in LeafIds :
          LeafButtonClick(leafId) =>
            IF (~highlightedPath.isNull) /\ Len(highlightedPath.ids) > 0
                 /\ highlightedPath.ids[Len(highlightedPath.ids)] = leafId
            THEN /\ lastOp'.op = "clearHighlightedPath"
                 /\ highlightedPath' = NoPath
                 /\ pathRequestIdRef' = pathRequestIdRef + 1
                 /\ { r.requestId : r \in pathRequests' } = { r.requestId : r \in pathRequests }
            ELSE /\ lastOp'.op = "highlightPathToNode"
                 /\ highlightedPath' = highlightedPath
                 /\ \E r \in pathRequests' \ pathRequests :
                       /\ r.nodeId = leafId
                       /\ r.requestId = pathRequestIdRef'
                       /\ pathRequests' = pathRequests \cup {r} ]_vars

\* with the path to one leaf highlighted, the button of another leaf has been
\* clicked: the path is still highlighted and the lookup for the other leaf is
\* in flight
C35_Witness ==
    /\ lastOp.op = "highlightPathToNode"
    /\ ~highlightedPath.isNull
    /\ Len(highlightedPath.ids) > 0
    /\ \E r \in pathRequests :
          /\ r.requestId = pathRequestIdRef
          /\ r.nodeId \in IdsOf(leafNodes)
          /\ r.nodeId # highlightedPath.ids[Len(highlightedPath.ids)]

(***************************************************************************)
(* Properties of the mock stream (C36, C37, C38 under StreamSpec).         *)
(***************************************************************************)
\* the last call into the hook was stopStreaming or reset
Stopped == lastOp.op \in {"stopStreaming", "reset"}

\* C36: after stopStreaming() or reset(), and until the next startStreaming(),
\* isStreaming is false, no chunk timer is pending and none runs, and content
\* does not change (but for a reset() emptying it); after reset() content is
\* empty and error is null.
C36_StoppedStaysStopped ==
    /\ [](Stopped => /\ ~state.isStreaming
                     /\ ~streamingRef
                     /\ timers = {})
    /\ [](lastOp.op = "reset" => /\ state.content = << >>
                                 /\ state.error = NULL)
    /\ [][ Stopped => /\ lastOp'.op \in {"stopStreaming", "reset", "startStreaming"}
                      /\ lastOp'.op = "stopStreaming" => state'.content = state.content ]_vars

\* stopStreaming has stopped a stream part of whose response had arrived
C36_Witness ==
    /\ lastOp.op = "stopStreaming"
    /\ Len(state.content) > 0
    /\ Len(state.content) < Len(MOCK_RESPONSE)
    /\ streamCalls > 0

\* content is what MOCK_RESPONSE begins with
ContentIsPrefix ==
    /\ Len(state.content) <= Len(MOCK_RESPONSE)
    /\ \A k \in 1..Len(state.content) : state.content[k] = MOCK_RESPONSE[k]

\* C37: content is at all times a prefix of the full response, every chunk
\* makes it strictly longer, and a stream that is neither stopped nor
\* restarted reaches the full response and then sets isStreaming to false.
C37_StreamCompletes ==
    /\ []ContentIsPrefix
    /\ [][ (lastOp'.op = "streamChunk" /\ lastOp'.arg = "chunk")
             => Len(state'.content) > Len(state.content) ]_vars
    /\ \A k \in 1..MaxStreams :
          (streamCalls = k /\ state.isStreaming)
            ~> \/ streamCalls # k
               \/ Stopped
               \/ (state.content = MOCK_RESPONSE /\ ~state.isStreaming)

\* a stream has delivered the whole response and has ended itself
C37_Witness ==
    /\ lastOp.op = "streamChunk"
    /\ lastOp.arg = "complete"
    /\ state.content = MOCK_RESPONSE
    /\ ~state.isStreaming
    /\ timers = {}

\* C38: startStreaming() called while a stream is in progress starts over from
\* empty content; at most one chunk timer is pending at any time, it belongs
\* to the latest startStreaming call, and every run of streamChunk is a run of
\* the latest call's closure.
C38_RestartSupersedes ==
    /\ Cardinality(timers) <= 1
    /\ \A t \in timers : t.call = streamCalls /\ t.id = timeoutRef
    /\ lastOp.op = "startStreaming"
         => /\ state.content = << >>
            /\ state.isStreaming
            /\ \E t \in timers : t.index = 0
    /\ lastOp.op = "streamChunk" => lastOp.req = streamCalls

\* startStreaming has been called while an earlier stream was in progress
C38_Witness ==
    /\ lastOp = Op("startStreaming", "restart", 2, TRUE)
    /\ streamCalls = 2
    /\ Cardinality(timers) = 1

==========================================================================
